---- MODULE Spec2Model ----
(***************************************************************************)
(* SimpleShootingStar: the per-frame simulation of Game.Update (main.go).  *)
(* One step of the model is one call of Update.  Coordinates are float64   *)
(* in the program; here they are fixed-point integers, Scale units to the  *)
(* pixel.  The decorative background stars are read by Draw only and are   *)
(* not carried.                                                            *)
(***************************************************************************)
EXTENDS Integers, Sequences, FiniteSets, TLC

VARIABLES
    playerX, playerY,          \* Game.playerX, Game.playerY
    bullets,                   \* Game.bullets
    shootCooldown,             \* Game.shootCooldown
    enemies,                   \* Game.enemies
    waves,                     \* Game.waves
    waveTimer,                 \* Game.waveTimer
    currentSpawn,              \* Game.currentSpawn
    score, highScore,          \* Game.score, Game.highScore
    gameState,                 \* Game.gameState
    particles,                 \* Game.particles
    currentStage,              \* Game.currentStage
    stageClearTimer,           \* Game.stageClearTimer
    stageClearKeyReleased,     \* Game.stageClearKeyReleased
    playerExplosionTimer,      \* Game.playerExplosionTimer
    enemyBullets,              \* Game.enemyBullets
    stages,                    \* package variable stages (loadStages)
    pad,                       \* the key states the input provider may report
                               \* in the coming frame
    script,                    \* the key states the input provider may report,
                               \* by wave-timer value
    shootCalls,                \* calls of audio.GetInstance().Play("shoot")
    smMutex,                   \* SoundManager.mutex: who holds it
    sounds,                    \* SoundManager.sounds: name -> index in effects,
                               \* 0 when the name is absent
    effects,                   \* the SoundEffect objects created so far
    timers,                    \* the time.Timer objects created so far
    calls                      \* per goroutine: the method it is in, and where

\* the variables of the simulation
gameVars == << playerX, playerY, bullets, shootCooldown, enemies, waves, waveTimer,
               currentSpawn, score, highScore, gameState, particles, currentStage,
               stageClearTimer, stageClearKeyReleased, playerExplosionTimer,
               enemyBullets, stages, pad, script, shootCalls >>

\* the variables of the sound manager
audioVars == << smMutex, sounds, effects, timers, calls >>

vars == << playerX, playerY, bullets, shootCooldown, enemies, waves, waveTimer,
           currentSpawn, score, highScore, gameState, particles, currentStage,
           stageClearTimer, stageClearKeyReleased, playerExplosionTimer,
           enemyBullets, stages, pad, script, shootCalls,
           smMutex, sounds, effects, timers, calls >>

-----------------------------------------------------------------------------
(* Bounds of the exploration *)

\* channels of a sound effect explored (MaxChannels is 8 in sound.go)
MaxChannels == 2

\* calls of Play that reach a loaded sound, and successful loads, explored
\* with every method free to run
MaxPlays == 2

MaxLoads == 2

\* calls of Play explored with a loaded sound and the callers playing and
\* stopping only: one more than fills the channels
MaxChannelPlays == 3

\* player fire events explored for a player who can release the fire key
\* (caps the count of Play("shoot") calls)
MaxShots == 1

\* Playing frames explored per stage (a stage whose boss is never destroyed
\* does not end)
MaxWaveTimer == 400

\* frames an enemy is followed for (a boss left on screen at GameOver keeps
\* counting e.time)
MaxEnemyTime == 420

\* the draws of math/rand explored: the least and the greatest value of
\* rand.Intn(60)
RandDraws == {0, 59}

-----------------------------------------------------------------------------
(* Program constants *)

Scale == 1000

screenWidth == 640

screenHeight == 480

GameStateTitle == 0

GameStatePlaying == 1

GameStateStageClear == 2

GameStatePlayerExplosion == 3

GameStateGameOver == 4

EnemyTypeStraight == 0

EnemyTypeSine == 1

EnemyTypeSpecial == 2

EnemyTypeBoss == 3

\* float64 NaN (0/0 of the aimed-bullet velocity); every comparison with it
\* is false and every sum with it is NaN
NaN == -999999999

\* alpha 1.0 of a particle, in fixed point
AlphaOne == 1000000

FAdd(a, b) == IF a = NaN \/ b = NaN THEN NaN ELSE a + b

FLt(a, b) == a # NaN /\ b # NaN /\ a < b

FGt(a, b) == a # NaN /\ b # NaN /\ a > b

Px(n) == n * Scale

\* the i-th value of rand.Intn(n) within one Update, from the draw r
Intn(n, r, i) == (r + i) % n

-----------------------------------------------------------------------------
(* NewGame and the input provider *)

Key(l, rt, u, d, sp, rk) ==
    [left |-> l, right |-> rt, up |-> u, down |-> d, space |-> sp, r |-> rk]

NoKey == Key(FALSE, FALSE, FALSE, FALSE, FALSE, FALSE)

Wave(t, x, delay, shoots, btype, speed, turn) ==
    [EnemyType |-> t, X |-> x, Delay |-> delay, ShootsBullet |-> shoots,
     BulletType |-> btype, Speed |-> speed, TurnDirection |-> turn]

\* NewGame's field values (the fields a restart overwrites)
NewGameFields(st) ==
    [playerX |-> Px(screenWidth) \div 2,
     playerY |-> ((Px(screenHeight) \div 2) * 17) \div 10,
     bullets |-> << >>,
     enemies |-> << >>,
     waves |-> st[1].Waves,
     waveTimer |-> 0,
     currentSpawn |-> 0,
     score |-> 0,
     gameState |-> GameStateTitle,
     highScore |-> 0,
     particles |-> << >>,
     currentStage |-> 0,
     stageClearTimer |-> 0,
     stageClearKeyReleased |-> FALSE,
     playerExplosionTimer |-> 0,
     shootCooldown |-> 0,
     enemyBullets |-> << >>]

-----------------------------------------------------------------------------
(* Sequence helpers (the slice idioms of the code) *)

RECURSIVE Concat(_)
\* the concatenation of a sequence of sequences
Concat(ss) == IF ss = << >> THEN << >> ELSE Head(ss) \o Concat(Tail(ss))

\* s with its i-th element (1-based) removed: append(s[:i], s[i+1:]...)
RemoveAt(s, i) == SubSeq(s, 1, i - 1) \o SubSeq(s, i + 1, Len(s))

-----------------------------------------------------------------------------
(* Particles *)

Particle(x, y, vx, vy, size, alpha, lifetime, ptype) ==
    [x |-> x, y |-> y, vx |-> vx, vy |-> vy, size |-> size, alpha |-> alpha,
     lifetime |-> lifetime, ptype |-> ptype]

\* cos and sin of the explosion angles explored (0, pi/2, pi, 3pi/2)
DirCos(q) == CASE q = 0 -> 1 [] q = 1 -> 0 [] q = 2 -> -1 [] OTHER -> 0

DirSin(q) == CASE q = 0 -> 0 [] q = 1 -> 1 [] q = 2 -> 0 [] OTHER -> -1

\* createExplosion: particleCount particles at (x, y)
particleCount == 20

createExplosion(x, y, r) ==
    [i \in 1..particleCount |->
        LET q == Intn(4, r, i)
            speed == Px(2) + q * (Px(3) \div 4)
        IN  Particle(x, y, DirCos(q) * speed, DirSin(q) * speed,
                     Px(4) + q * Px(1), AlphaOne, 30 + Intn(20, r, i), 0)]

\* a particle update that fades the particle but leaves its lifetime alone
StepParticleAgeless(p) ==
    LET moved == IF p.ptype # 1
                 THEN [p EXCEPT !.x = FAdd(p.x, p.vx), !.y = FAdd(p.y, p.vy),
                                !.vy = FAdd(p.vy, Scale \div 10)]
                 ELSE p
    IN  [moved EXCEPT !.alpha = p.alpha - (AlphaOne \div p.lifetime)]

\* one particle after the update of Update's particle loop
StepParticle(p) ==
    LET moved == IF p.ptype # 1
                 THEN [p EXCEPT !.x = FAdd(p.x, p.vx), !.y = FAdd(p.y, p.vy),
                                !.vy = FAdd(p.vy, Scale \div 10)]
                 ELSE p
    IN  [moved EXCEPT !.alpha = p.alpha - (AlphaOne \div p.lifetime),
                      !.lifetime = p.lifetime - 1]

ParticleLives(p) == p.lifetime > 0 /\ p.alpha > 0

\* the particle loop at the head of Update
UpdateParticles(ps) ==
    SelectSeq([i \in 1..Len(ps) |-> StepParticle(ps[i])], ParticleLives)

-----------------------------------------------------------------------------
(* Enemies: spawn, movement, boss state machine, firing *)

EnemyBullet(x, y, vx, vy) == [x |-> x, y |-> y, vx |-> vx, vy |-> vy]

\* the delay of wave i alone, not accumulated
totalDelayLast(ws, i) == IF i < 0 THEN 0 ELSE ws[i + 1].Delay

\* sum of Delay over waves 0..currentSpawn (i is 0-based as in the code)
RECURSIVE totalDelay(_, _)
totalDelay(ws, i) ==
    IF i < 0 THEN 0 ELSE ws[i + 1].Delay + totalDelay(ws, i - 1)

\* hit points that do not depend on the enemy type
SpawnHpFlat(t) == 2

\* hit points by kind (switch wave.EnemyType)
SpawnHp(t) ==
    CASE t = EnemyTypeStraight -> 2
      [] t = EnemyTypeSine -> 3
      [] t = EnemyTypeSpecial -> 4
      [] t = EnemyTypeBoss -> 50
      [] OTHER -> 1

\* the Enemy literal built from a wave descriptor; r is the rand draw
SpawnEnemy(wave, r) ==
    [x |-> Px(wave.X),
     y |-> -Px(20),
     speed |-> IF wave.Speed = 0 THEN Px(2) ELSE wave.Speed,
     enemyType |-> wave.EnemyType,
     time |-> 0,
     phase |-> 0,
     hp |-> SpawnHp(wave.EnemyType),
     shootsBullet |-> wave.ShootsBullet,
     bulletType |-> wave.BulletType,
     bulletCooldown |-> 60 + Intn(60, r, 0),
     turnDirection |-> IF wave.TurnDirection = 0 THEN 1 ELSE wave.TurnDirection,
     bossState |-> 0,
     bossTimer |-> 0,
     moveDirection |-> 1]

\* math.Sin(e.time) * Scale for e.time = 0.05 * n (Bhaskara's rational
\* approximation on the half period, angles in milliradians)
SinMilli(n) ==
    LET a == (50 * n) % 6283
        h == IF a > 3141 THEN a - 3141 ELSE a
        p == (h * (3141 - h)) \div 100
        v == (16000 * p) \div (493295 - 4 * p)
    IN  IF a > 3141 THEN -v ELSE v

\* math.Sin(j * 0.3) * 3.0 and math.Cos(j * 0.3) * 3.0 of the boss volley
BossVx(j) ==
    CASE j = -2 -> -1694 [] j = -1 -> -887 [] j = 0 -> 0
      [] j = 1 -> 887 [] OTHER -> 1694

BossVy(j) == CASE j = 0 -> 3000 [] j = 1 \/ j = -1 -> 2866 [] OTHER -> 2476

\* floor of the square root of n, searched by bisection in lo..hi
RECURSIVE SqrtBetween(_, _, _)
SqrtBetween(n, lo, hi) ==
    IF lo >= hi THEN lo
    ELSE LET mid == (lo + hi + 1) \div 2
         IN  IF mid * mid <= n THEN SqrtBetween(n, mid, hi)
             ELSE SqrtBetween(n, lo, mid - 1)

\* floor of the square root
ISqrt(n) == SqrtBetween(n, 0, 46340)

Abs(n) == IF n < 0 THEN -n ELSE n

\* math.Hypot(dx, dy) in tenths of a pixel (0 only for dx = dy = 0)
Hypot(dx, dy) ==
    LET ax == Abs(dx) \div (Scale \div 10)
        ay == Abs(dy) \div (Scale \div 10)
        h == ISqrt(ax * ax + ay * ay)
    IN  IF dx = 0 /\ dy = 0 THEN 0 ELSE IF h = 0 THEN 1 ELSE h

\* d / dist * 4.0 of the aimed bullet; 0/0 is NaN
AimVel(d, dist) ==
    IF dist = 0 THEN NaN
    ELSE LET v == (Abs(d) * 40) \div dist
         IN  IF d < 0 THEN -v ELSE v

\* a Special enemy that keeps descending while it traverses
MoveSpecialDiagonal(e) ==
    CASE e.phase = 0 ->
            LET y1 == e.y + e.speed
            IN  [e EXCEPT !.y = y1,
                          !.phase = IF y1 > Px(screenHeight) \div 2 THEN 1 ELSE 0]
      [] e.phase = 1 ->
            LET x1 == e.x + e.speed * e.turnDirection
            IN  [e EXCEPT !.x = x1,
                          !.y = e.y + e.speed,
                          !.phase = IF \/ e.turnDirection = 1 /\ x1 > Px(screenWidth - 40)
                                       \/ e.turnDirection = -1 /\ x1 < Px(20)
                                    THEN 2 ELSE 1]
      [] e.phase = 2 -> [e EXCEPT !.y = e.y + e.speed]
      [] OTHER -> e

\* movement of one Special enemy in GameStatePlaying
MoveSpecialPlaying(e) ==
    CASE e.phase = 0 ->
            LET y1 == e.y + e.speed
            IN  [e EXCEPT !.y = y1,
                          !.phase = IF y1 > Px(screenHeight) \div 2 THEN 1 ELSE 0]
      [] e.phase = 1 ->
            LET x1 == e.x + e.speed * e.turnDirection
            IN  [e EXCEPT !.x = x1,
                          !.phase = IF \/ e.turnDirection = 1 /\ x1 > Px(screenWidth - 40)
                                       \/ e.turnDirection = -1 /\ x1 < Px(20)
                                    THEN 2 ELSE 1]
      [] e.phase = 2 -> [e EXCEPT !.y = e.y + e.speed]
      [] OTHER -> e

\* movement of one Special enemy in GameStateGameOver
MoveSpecialGameOver(e) ==
    CASE e.phase = 0 ->
            LET y1 == e.y + e.speed
            IN  [e EXCEPT !.y = y1,
                          !.phase = IF y1 > Px(screenHeight) \div 2 THEN 1 ELSE 0]
      [] e.phase = 1 ->
            LET x1 == e.x + e.speed
            IN  [e EXCEPT !.x = x1,
                          !.phase = IF x1 > Px(screenWidth - 40) THEN 2 ELSE 1]
      [] e.phase = 2 -> [e EXCEPT !.y = e.y + e.speed]
      [] OTHER -> e

\* a boss state machine that leaves Rest without resetting the phase timer
MoveBossStaleTimer(e0) ==
    LET e == [e0 EXCEPT !.bossTimer = e0.bossTimer + 1]
    IN  CASE e.bossState = 0 ->
                IF e.y < Px(80) THEN [e EXCEPT !.y = e.y + e.speed]
                ELSE LET x1 == e.x + e.speed * e.moveDirection
                         dir == IF x1 <= Px(50) THEN 1
                                ELSE IF x1 >= Px(screenWidth - 90) THEN -1
                                ELSE e.moveDirection
                     IN  IF e.bossTimer > 120
                         THEN [e EXCEPT !.x = x1, !.moveDirection = dir,
                                        !.bossState = 1, !.bossTimer = 0]
                         ELSE [e EXCEPT !.x = x1, !.moveDirection = dir]
          [] e.bossState = 1 ->
                IF e.bossTimer > 60
                THEN [e EXCEPT !.bossState = 2, !.bossTimer = 0] ELSE e
          [] e.bossState = 2 ->
                IF e.bossTimer > 80
                THEN [e EXCEPT !.bossState = 3, !.bossTimer = 0] ELSE e
          [] e.bossState = 3 ->
                IF e.bossTimer > 90
                THEN [e EXCEPT !.bossState = 0] ELSE e
          [] OTHER -> e

\* the boss state machine (case EnemyTypeBoss), bullets apart
MoveBoss(e0) ==
    LET e == [e0 EXCEPT !.bossTimer = e0.bossTimer + 1]
    IN  CASE e.bossState = 0 ->
                IF e.y < Px(80) THEN [e EXCEPT !.y = e.y + e.speed]
                ELSE LET x1 == e.x + e.speed * e.moveDirection
                         dir == IF x1 <= Px(50) THEN 1
                                ELSE IF x1 >= Px(screenWidth - 90) THEN -1
                                ELSE e.moveDirection
                     IN  IF e.bossTimer > 120
                         THEN [e EXCEPT !.x = x1, !.moveDirection = dir,
                                        !.bossState = 1, !.bossTimer = 0]
                         ELSE [e EXCEPT !.x = x1, !.moveDirection = dir]
          [] e.bossState = 1 ->
                IF e.bossTimer > 60
                THEN [e EXCEPT !.bossState = 2, !.bossTimer = 0] ELSE e
          [] e.bossState = 2 ->
                IF e.bossTimer > 80
                THEN [e EXCEPT !.bossState = 3, !.bossTimer = 0] ELSE e
          [] e.bossState = 3 ->
                IF e.bossTimer > 90
                THEN [e EXCEPT !.bossState = 0, !.bossTimer = 0] ELSE e
          [] OTHER -> e

\* a boss that fires its volleys in every phase
BossFiresAnyPhase(e0) ==
    /\ e0.enemyType = EnemyTypeBoss
    /\ (e0.bossTimer + 1) % 8 = 0
    /\ e0.bossTimer + 1 < 80

\* does the boss e0 (before this frame's update) fire a volley this frame
BossFires(e0) ==
    /\ e0.enemyType = EnemyTypeBoss
    /\ e0.bossState = 2
    /\ (e0.bossTimer + 1) % 8 = 0
    /\ e0.bossTimer + 1 < 80

\* the 5-way volley, j = -2..2 in order
BossVolley(e) ==
    [i \in 1..5 |-> EnemyBullet(e.x + Px(20), e.y + Px(30), BossVx(i - 3), BossVy(i - 3))]

BossFlash(e) ==
    Particle(e.x + Px(20), e.y + Px(30), 0, Px(4), Px(100), AlphaOne, 8, 1)

\* the movement switch of the Playing loop
MoveEnemyPlaying(e0) ==
    LET e == [e0 EXCEPT !.time = e0.time + 1]
    IN  CASE e.enemyType = EnemyTypeStraight -> [e EXCEPT !.y = e.y + e.speed]
          [] e.enemyType = EnemyTypeSine ->
                [e EXCEPT !.y = e.y + e.speed,
                          !.x = e.x + (SinMilli(e.time) * 3 * Scale) \div 1000]
          [] e.enemyType = EnemyTypeSpecial -> MoveSpecialPlaying(e)
          [] e.enemyType = EnemyTypeBoss -> MoveBoss(e)
          [] OTHER -> e

\* the movement switch of the GameOver loop (no boss case)
MoveEnemyGameOver(e0) ==
    LET e == [e0 EXCEPT !.time = e0.time + 1]
    IN  CASE e.enemyType = EnemyTypeStraight -> [e EXCEPT !.y = e.y + e.speed]
          [] e.enemyType = EnemyTypeSine ->
                [e EXCEPT !.y = e.y + e.speed,
                          !.x = e.x + (SinMilli(e.time) * 3 * Scale) \div 1000]
          [] e.enemyType = EnemyTypeSpecial -> MoveSpecialGameOver(e)
          [] OTHER -> e

\* velocity of the bullet of pattern e.bulletType, << vx, vy >>
ShotVelocity(e, px, py) ==
    CASE e.bulletType = 0 ->
            LET dx == px - e.x
                dy == py - e.y
                dist == Hypot(dx, dy)
            IN  << AimVel(dx, dist), AimVel(dy, dist) >>
      [] e.bulletType = 1 -> << 0, Px(4) >>
      [] e.bulletType = 2 -> << Px(2), Px(4) >>
      [] OTHER -> << -Px(2), Px(4) >>

\* a cooldown path that fires one frame late
CooldownFiresLate(e) == e.shootsBullet /\ e.bulletCooldown - 1 < 0

\* does the moved enemy e fire through the cooldown path this frame
CooldownFires(e) == e.shootsBullet /\ e.bulletCooldown - 1 <= 0

\* one enemy of the Playing loop: the enemy after the frame, the enemy
\* bullets and the particles it appended
EnemyStep(e0, px, py, r) ==
    LET m == MoveEnemyPlaying(e0)
        volley == IF BossFires(e0) THEN BossVolley(m) ELSE << >>
        flash == IF BossFires(e0) THEN << BossFlash(m) >> ELSE << >>
        fires == CooldownFires(m)
        emits == fires /\ m.bulletType \in 0..3
        v == ShotVelocity(m, px, py)
        e1 == IF ~m.shootsBullet THEN m
              ELSE IF fires THEN [m EXCEPT !.bulletCooldown = 60 + Intn(60, r, 0)]
              ELSE [m EXCEPT !.bulletCooldown = m.bulletCooldown - 1]
    IN  [e |-> e1,
         ebs |-> volley \o (IF emits
                            THEN << EnemyBullet(m.x + Px(10), m.y + Px(20), v[1], v[2]) >>
                            ELSE << >>),
         ps |-> flash \o (IF emits
                          THEN << Particle(m.x + Px(10), m.y + Px(20), v[1], v[2],
                                           Px(80), AlphaOne, 5, 1) >>
                          ELSE << >>)]

\* an off-screen filter that keeps every enemy
OnScreenAlways(e) == e.y = e.y

\* an enemy still on screen (the off-screen filter)
OnScreen(e) == e.y < Px(screenHeight + 20)

-----------------------------------------------------------------------------
(* Player fire and collisions *)

Bullet(x, y, vx, vy) == [x |-> x, y |-> y, vx |-> vx, vy |-> vy]

\* a fire event without its centre bullet
FireBulletsPair(px, py) ==
    << Bullet(px, py, -628, -11984),
       Bullet(px + Px(16), py, 628, -11984) >>

\* the three bullets of one fire event: angles -3, 0, 3 degrees, offsets
\* 0, 8, 16; math.Sin(rad) * 12 and -math.Cos(rad) * 12 in fixed point
FireBullets(px, py) ==
    << Bullet(px, py, -628, -11984),
       Bullet(px + Px(8), py, 0, -12000),
       Bullet(px + Px(16), py, 628, -11984) >>

enemyWidth(e) == IF e.enemyType = EnemyTypeBoss THEN Px(60) ELSE Px(20)

enemyHeight(e) == IF e.enemyType = EnemyTypeBoss THEN Px(40) ELSE Px(20)

\* the overlap test of a player bullet and an enemy
BulletHitsEnemy(b, e) ==
    /\ b.x < e.x + enemyWidth(e)
    /\ b.x + Px(4) > e.x
    /\ b.y < e.y + enemyHeight(e)
    /\ b.y + Px(8) > e.y

\* index of the last enemy the bullet overlaps, 0 when none
LastHit(b, es) ==
    IF \E j \in 1..Len(es) : BulletHitsEnemy(b, es[j])
    THEN CHOOSE j \in 1..Len(es) :
            /\ BulletHitsEnemy(b, es[j])
            /\ \A h \in (j + 1)..Len(es) : ~BulletHitsEnemy(b, es[h])
    ELSE 0

\* index (1-based) of the first enemy the bullet overlaps, 0 when none
FirstHit(b, es) ==
    IF \E j \in 1..Len(es) : BulletHitsEnemy(b, es[j])
    THEN CHOOSE j \in 1..Len(es) :
            /\ BulletHitsEnemy(b, es[j])
            /\ \A h \in 1..(j - 1) : ~BulletHitsEnemy(b, es[h])
    ELSE 0

\* a kill that is worth 100 whatever the enemy type
KillScoreFlat(e) == 100

\* the score of destroying e
KillScore(e) == IF e.enemyType = EnemyTypeBoss THEN 1000 ELSE 100

\* a moved player bullet is kept
BulletInBounds(b) ==
    b.y > -Px(8) /\ b.x > -Px(8) /\ b.x < Px(screenWidth + 8)

\* a hit that takes two hit points
DamageTwice(e) == e.hp - 2

\* the hit points of e after a registered hit (hp--)
Damage(e) == e.hp - 1

\* the player-bullet loop from bullet i on; acc carries enemies, the kept
\* bullets, the score, the particles appended by explosions and the count
\* of passes through hit = true
RECURSIVE BulletLoop(_, _, _, _)
BulletLoop(bs, i, acc, r) ==
    IF i > Len(bs) THEN acc
    ELSE LET b == bs[i]
             j == FirstHit(b, acc.enemies)
         IN  IF j > 0
             THEN LET e == acc.enemies[j]
                      hp1 == Damage(e)
                  IN  IF hp1 <= 0
                      THEN BulletLoop(bs, i + 1,
                              [acc EXCEPT
                                 !.hits = acc.hits + 1,
                                 !.enemies = RemoveAt(acc.enemies, j),
                                 !.score = acc.score + KillScore(e),
                                 !.ps = acc.ps \o createExplosion(e.x + Px(10), e.y + Px(10), r)],
                              r)
                      ELSE BulletLoop(bs, i + 1,
                              [acc EXCEPT !.hits = acc.hits + 1,
                                          !.enemies[j].hp = hp1], r)
             ELSE LET b1 == [b EXCEPT !.x = b.x + b.vx, !.y = b.y + b.vy]
                  IN  BulletLoop(bs, i + 1,
                          IF BulletInBounds(b1)
                          THEN [acc EXCEPT !.bullets = Append(acc.bullets, b1)]
                          ELSE acc,
                          r)

\* the overlap test of a moved enemy bullet and the player
EnemyBulletHitsPlayer(eb, px, py) ==
    /\ FLt(eb.x, px + Px(20))
    /\ FGt(FAdd(eb.x, Px(4)), px)
    /\ FLt(eb.y, py + Px(24))
    /\ FGt(FAdd(eb.y, Px(8)), py)

\* a keep test that keeps an enemy bullet exactly on the left or right edge
EnemyBulletInBoundsInclusive(eb) ==
    /\ FLt(eb.y, Px(screenHeight + 8))
    /\ ~FLt(eb.x, -Px(8))
    /\ ~FGt(eb.x, Px(screenWidth + 8))

\* a moved enemy bullet is kept
EnemyBulletInBounds(eb) ==
    /\ FLt(eb.y, Px(screenHeight + 8))
    /\ FGt(eb.x, -Px(8))
    /\ FLt(eb.x, Px(screenWidth + 8))

\* the enemy-bullet loop from bullet i on: the kept bullets, and whether the
\* loop was left by the break of a player hit
RECURSIVE EnemyBulletLoop(_, _, _, _, _)
EnemyBulletLoop(ebs, i, kept, px, py) ==
    IF i > Len(ebs) THEN [bullets |-> kept, hit |-> FALSE]
    ELSE LET eb == [ebs[i] EXCEPT !.x = FAdd(ebs[i].x, ebs[i].vx),
                                  !.y = FAdd(ebs[i].y, ebs[i].vy)]
         IN  IF EnemyBulletHitsPlayer(eb, px, py)
             THEN [bullets |-> kept, hit |-> TRUE]
             ELSE EnemyBulletLoop(ebs, i + 1,
                      IF EnemyBulletInBounds(eb) THEN Append(kept, eb) ELSE kept,
                      px, py)

\* the overlap test of the player and an enemy body
EnemyHitsPlayer(e, px, py) ==
    /\ px < e.x + enemyWidth(e)
    /\ px + Px(20) > e.x
    /\ py < e.y + enemyHeight(e)
    /\ py + Px(24) > e.y

-----------------------------------------------------------------------------
(* Scenarios: the stage data read by loadStages and the keys the player   *)
(* uses.  Speeds are in fixed point, X and Delay as in stages.json.       *)

KSpace == [NoKey EXCEPT !.space = TRUE]

KR == [NoKey EXCEPT !.r = TRUE]

KDown == [NoKey EXCEPT !.down = TRUE]

KUp == [NoKey EXCEPT !.up = TRUE]

KLeft == [NoKey EXCEPT !.left = TRUE]

KRight == [NoKey EXCEPT !.right = TRUE]

\* the keys a player following the script sc may hold in the frame that
\* begins with wave-timer value t: those of the last entry that t has reached
KeysAt(sc, t) ==
    LET reached == {i \in 1..Len(sc) : sc[i].from <= t}
    IN  sc[CHOOSE i \in reached : \A j \in reached : j <= i].keys

\* a player who may hold any of the key states ks in every frame
Hold(ks) == << [from |-> 0, keys |-> ks] >>

Stage(name, ws) == [Name |-> name, Waves |-> ws]

\* a target and then a rammer, both in the player's column; a second stage
\* without waves
StagesDuel ==
    << Stage("duel-1", << Wave(EnemyTypeStraight, 320, 0, FALSE, 0, Px(100), 0),
                          Wave(EnemyTypeStraight, 320, 2, FALSE, 0, Px(107), 0) >>),
       Stage("duel-2", << >>) >>

\* one enemy passing far from the player, then stages without waves
StagesDrift ==
    << Stage("drift-1", << Wave(EnemyTypeStraight, 100, 0, FALSE, 0, Px(130), 0) >>),
       Stage("drift-2", << >>),
       Stage("drift-3", << >>) >>

\* a shooter aiming at the player from a neighbouring column, then a late
\* target in the player's column; a second stage without waves
StagesShooter ==
    << Stage("shooter-1", << Wave(EnemyTypeStraight, 360, 0, TRUE, 0, Px(8), 0),
                             Wave(EnemyTypeStraight, 320, 56, FALSE, 0, Px(20), 0) >>),
       Stage("shooter-2", << >>) >>

\* waves without delay between them, and a delayed one
StagesBurst ==
    << Stage("burst-1", << Wave(EnemyTypeStraight, 100, 0, FALSE, 0, Px(130), 0),
                           Wave(EnemyTypeSine, 140, 0, FALSE, 0, Px(130), 0),
                           Wave(EnemyTypeStraight, 180, 3, FALSE, 0, Px(130), 0),
                           Wave(EnemyTypeStraight, 220, 0, FALSE, 0, Px(130), 0) >>) >>

\* the delays 0, 30, 30
StagesCadence ==
    << Stage("cadence-1", << Wave(EnemyTypeStraight, 100, 0, FALSE, 0, Px(130), 0),
                             Wave(EnemyTypeStraight, 100, 30, FALSE, 0, Px(130), 0),
                             Wave(EnemyTypeStraight, 100, 30, FALSE, 0, Px(130), 0) >>) >>

\* a boss of default speed off the player's column, and a Special enemy
\* that turns left
StagesBoss ==
    << Stage("boss-1", << Wave(EnemyTypeBoss, 400, 0, FALSE, 0, 0, 0),
                          Wave(EnemyTypeSpecial, 100, 0, FALSE, 0, Px(4), -1) >>) >>

\* a boss whose wave is flagged as a shooter with the aimed pattern
StagesBossShooter ==
    << Stage("boss-shooter-1", << Wave(EnemyTypeBoss, 400, 0, TRUE, 0, 0, 0) >>) >>

\* a slow boss that stays in the player's column under continuous fire
StagesBarrage ==
    << Stage("barrage-1", << Wave(EnemyTypeBoss, 290, 0, FALSE, 0, Px(1), 0) >>) >>

\* a slow boss in the player's column and, listed after it, a Straight enemy
\* that overtakes it in the same column, under continuous fire
StagesEscort ==
    << Stage("escort-1", << Wave(EnemyTypeBoss, 290, 0, FALSE, 0, Px(1), 0),
                            Wave(EnemyTypeStraight, 320, 0, FALSE, 0, Px(2), 0) >>) >>

\* two stages without waves
StagesHollow ==
    << Stage("hollow-1", << >>), Stage("hollow-2", << >>) >>

\* a slow shooter of the aimed pattern in a column left of the player
StagesDodge ==
    << Stage("dodge-1", << Wave(EnemyTypeStraight, 280, 0, TRUE, 0, 0, 0) >>) >>

\* a player who starts the game, climbs for 42 frames, waits, and climbs
\* four more frames when the shooter's first cooldown has run out
ScriptDodge ==
    << [from |-> 0, keys |-> {KSpace}],
       [from |-> 1, keys |-> {KUp}],
       [from |-> 43, keys |-> {NoKey}],
       [from |-> 60, keys |-> {KUp}],
       [from |-> 64, keys |-> {NoKey}] >>

\* a fast Special shooter of the aimed pattern that enters from the left of
\* the screen and traverses to the right at y = 248
StagesAmbush ==
    << Stage("ambush-1", << Wave(EnemyTypeSpecial, -145, 0, TRUE, 0, 16750, 1) >>) >>

\* a player who starts the game, moves to the right margin, climbs to
\* y = 248, waits, and steps left in the frame in which the shooter's first
\* cooldown runs out
ScriptAmbush ==
    << [from |-> 0, keys |-> {KSpace}],
       [from |-> 1, keys |-> {KRight}],
       [from |-> 36, keys |-> {KUp}],
       [from |-> 56, keys |-> {NoKey}],
       [from |-> 59, keys |-> {KLeft}],
       [from |-> 60, keys |-> {NoKey}] >>

\* a slow Special enemy that turns left at the right margin, and a fast
\* Straight enemy that rams the player when the player's bullets are gone
StagesWake ==
    << Stage("wake-1", << Wave(EnemyTypeSpecial, 600, 0, FALSE, 0, Px(4), -1),
                          Wave(EnemyTypeStraight, 320, 40, FALSE, 0, Px(107), 0) >>) >>

\* a player who starts the game and then holds no key
ScriptIdle ==
    << [from |-> 0, keys |-> {KSpace}],
       [from |-> 1, keys |-> {NoKey}] >>

\* a fast Straight enemy that comes down the left margin late in the stage
StagesSteer ==
    << Stage("steer-1", << Wave(EnemyTypeStraight, 20, 112, FALSE, 0, Px(60), 0) >>) >>

KRightDown == [NoKey EXCEPT !.right = TRUE, !.down = TRUE]

KLeftUp == [NoKey EXCEPT !.left = TRUE, !.up = TRUE]

\* the four direction keys held together
KAllWays == Key(TRUE, TRUE, TRUE, TRUE, FALSE, FALSE)

\* a player who starts the game with the space key and may hold it in the
\* first frame, steers into the bottom right corner, then
\* toward the top left corner, in each of these frames either moving or
\* holding all four direction keys, and at last holds no key or R
ScriptSteer ==
    << [from |-> 0, keys |-> {NoKey, KSpace}],
       [from |-> 1, keys |-> {KRightDown}],
       [from |-> 39, keys |-> {KLeftUp, KAllWays}],
       [from |-> 114, keys |-> {NoKey, KR}] >>

Scenarios ==
    { [stages |-> StagesDuel, script |-> Hold({NoKey, KSpace, KR})],
      [stages |-> StagesBoss, script |-> Hold({KSpace})],
      [stages |-> StagesBossShooter, script |-> Hold({KSpace})],
      [stages |-> StagesBarrage, script |-> Hold({KSpace})],
      [stages |-> StagesCadence, script |-> Hold({NoKey, KSpace, KR})],
      [stages |-> StagesDrift, script |-> Hold({NoKey, KSpace, KR, KDown})],
      [stages |-> StagesShooter, script |-> Hold({NoKey, KSpace, KR})],
      [stages |-> StagesBurst, script |-> Hold({NoKey, KSpace, KR})],
      [stages |-> StagesDodge, script |-> ScriptDodge],
      [stages |-> StagesEscort, script |-> Hold({KSpace})],
      [stages |-> StagesHollow, script |-> Hold({NoKey, KSpace, KR})],
      [stages |-> StagesAmbush, script |-> ScriptAmbush],
      [stages |-> StagesWake, script |-> ScriptIdle] }

-----------------------------------------------------------------------------
(* The state of the sound manager (src/audio/sound.go) *)

\* goroutines that call the sound manager
Threads == {1, 2}

\* names that sounds are loaded and played under
Names == {"shoot"}

\* the methods of SoundManager
Methods == {"Play", "Stop", "SetVolume", "SetPan", "LoadSound"}

\* a mutex that nobody holds, one held by goroutine t, one held by the
\* callback of timer i
Free == [kind |-> "none", id |-> 0]

ByThread(t) == [kind |-> "thread", id |-> t]

ByTimer(i) == [kind |-> "timer", id |-> i]

\* a goroutine outside every call
Idle == [op |-> "idle", at |-> "idle", name |-> "", snd |-> 0, arg |-> 0]

Channels == 1..MaxChannels

\* the SoundEffect that LoadSound creates
NewSoundEffect ==
    [mutex |-> Free, volume |-> 10, pan |-> 0,
     isPlaying |-> [c \in Channels |-> FALSE],
     stopTimers |-> [c \in Channels |-> 0]]

\* the manager after GetInstance
AudioEmpty ==
    /\ smMutex = Free
    /\ sounds = [n \in Names |-> 0]
    /\ effects = << >>
    /\ timers = << >>
    /\ calls = [t \in Threads |-> Idle]

\* the manager after Initialize: "shoot" loaded, at volume 0.7
AudioInitialized ==
    /\ smMutex = Free
    /\ sounds = [n \in Names |-> 1]
    /\ effects = << [NewSoundEffect EXCEPT !.volume = 7] >>
    /\ timers = << >>
    /\ calls = [t \in Threads |-> Idle]

-----------------------------------------------------------------------------
(* Init: the session returned by NewGame *)

Init ==
    \E sc \in Scenarios :
        LET g == NewGameFields(sc.stages)
        IN  /\ stages = sc.stages
            /\ script = sc.script
            /\ pad = KeysAt(sc.script, 0)
            /\ shootCalls = 0
            /\ playerX = g.playerX
            /\ playerY = g.playerY
            /\ bullets = g.bullets
            /\ shootCooldown = g.shootCooldown
            /\ enemies = g.enemies
            /\ waves = g.waves
            /\ waveTimer = g.waveTimer
            /\ currentSpawn = g.currentSpawn
            /\ score = g.score
            /\ highScore = g.highScore
            /\ gameState = g.gameState
            /\ particles = g.particles
            /\ currentStage = g.currentStage
            /\ stageClearTimer = g.stageClearTimer
            /\ stageClearKeyReleased = g.stageClearKeyReleased
            /\ playerExplosionTimer = g.playerExplosionTimer
            /\ enemyBullets = g.enemyBullets
            /\ AudioInitialized

-----------------------------------------------------------------------------
(* Update, one action per case of switch g.gameState *)

\* a title screen that the restart key leaves as well
UpdateTitleAnyKey(k) ==
    /\ gameState = GameStateTitle
    /\ particles' = UpdateParticles(particles)
    /\ gameState' = IF k.space \/ k.r THEN GameStatePlaying ELSE gameState
    /\ UNCHANGED << playerX, playerY, bullets, shootCooldown, enemies, waves,
                    waveTimer, currentSpawn, score, highScore, currentStage,
                    stageClearTimer, stageClearKeyReleased,
                    playerExplosionTimer, enemyBullets, stages, script, shootCalls >>
    /\ pad' = KeysAt(script, waveTimer')
    /\ UNCHANGED audioVars

\* case GameStateTitle
UpdateTitle(k) ==
    /\ gameState = GameStateTitle
    /\ particles' = UpdateParticles(particles)
    /\ gameState' = IF k.space THEN GameStatePlaying ELSE gameState
    /\ UNCHANGED << playerX, playerY, bullets, shootCooldown, enemies, waves,
                    waveTimer, currentSpawn, score, highScore, currentStage,
                    stageClearTimer, stageClearKeyReleased,
                    playerExplosionTimer, enemyBullets, stages, script, shootCalls >>
    /\ pad' = KeysAt(script, waveTimer')
    /\ UNCHANGED audioVars

\* the four key tests without the clamp at the left margin
MovePlayerNoLeftClamp(px, py, k) ==
    LET moveSpeed == Px(8)
        x1 == IF k.left THEN px - moveSpeed ELSE px
        x2 == IF k.right
              THEN (IF x1 + moveSpeed > Px(screenWidth - 40)
                    THEN Px(screenWidth - 40) ELSE x1 + moveSpeed)
              ELSE x1
        y1 == IF k.up
              THEN (IF py - moveSpeed < Px(40) THEN Px(40) ELSE py - moveSpeed)
              ELSE py
        y2 == IF k.down
              THEN (IF y1 + moveSpeed > Px(screenHeight - 20)
                    THEN Px(screenHeight - 20) ELSE y1 + moveSpeed)
              ELSE y1
    IN  << x2, y2 >>

\* the player position after the four key tests, << x, y >>
MovePlayer(px, py, k) ==
    LET moveSpeed == Px(8)
        x1 == IF k.left
              THEN (IF px - moveSpeed < Px(20) THEN Px(20) ELSE px - moveSpeed)
              ELSE px
        x2 == IF k.right
              THEN (IF x1 + moveSpeed > Px(screenWidth - 40)
                    THEN Px(screenWidth - 40) ELSE x1 + moveSpeed)
              ELSE x1
        y1 == IF k.up
              THEN (IF py - moveSpeed < Px(40) THEN Px(40) ELSE py - moveSpeed)
              ELSE py
        y2 == IF k.down
              THEN (IF y1 + moveSpeed > Px(screenHeight - 20)
                    THEN Px(screenHeight - 20) ELSE y1 + moveSpeed)
              ELSE y1
    IN  << x2, y2 >>

\* the spawn scheduler fires this frame
SpawnDue(ws, cs, wt) == cs < Len(ws) /\ wt >= totalDelay(ws, cs)

\* a stage-clear test that waits for at least one wave to have been spawned
StageClearedAfterSpawn(cs, ws, es) == cs >= Len(ws) /\ cs > 0 /\ Len(es) = 0

\* the stage-clear test after spawning, movement and off-screen removal
StageCleared(cs, ws, es) == cs >= Len(ws) /\ Len(es) = 0

\* the stage-clear fields if the test never reset the key-released flag
StageClearCheckKeepsFlag(cs, ws, es) ==
    IF StageCleared(cs, ws, es)
    THEN [cleared |-> TRUE,
          stageClearTimer |-> 0,
          stageClearKeyReleased |-> stageClearKeyReleased]
    ELSE [cleared |-> FALSE,
          stageClearTimer |-> stageClearTimer,
          stageClearKeyReleased |-> stageClearKeyReleased]

\* the stage-clear block: the test and the fields it sets on entry
StageClearCheck(cs, ws, es) ==
    IF StageCleared(cs, ws, es)
    THEN [cleared |-> TRUE,
          stageClearTimer |-> 0,
          stageClearKeyReleased |-> FALSE]
    ELSE [cleared |-> FALSE,
          stageClearTimer |-> stageClearTimer,
          stageClearKeyReleased |-> stageClearKeyReleased]

\* the whole of case GameStatePlaying as a function of the state before the
\* frame, the keys k and the rand draw r
PlayingFrame(k, r) ==
    LET pos == MovePlayer(playerX, playerY, k)
        px == pos[1]
        py == pos[2]
        due == SpawnDue(waves, currentSpawn, waveTimer)
        es0 == IF due THEN Append(enemies, SpawnEnemy(waves[currentSpawn + 1], r))
               ELSE enemies
        cs1 == IF due THEN currentSpawn + 1 ELSE currentSpawn
        steps == [i \in 1..Len(es0) |-> EnemyStep(es0[i], px, py, r)]
        es1 == [i \in 1..Len(es0) |-> steps[i].e]
        ebs1 == enemyBullets \o Concat([i \in 1..Len(es0) |-> steps[i].ebs])
        ps1 == UpdateParticles(particles) \o Concat([i \in 1..Len(es0) |-> steps[i].ps])
        es2 == SelectSeq(es1, OnScreen)
        sc == StageClearCheck(cs1, waves, es2)
        cleared == sc.cleared
        fire == k.space /\ shootCooldown = 0
        bs0 == IF fire THEN bullets \o FireBullets(px, py) ELSE bullets
        cd0 == IF fire THEN 5 ELSE shootCooldown
        cd1 == IF cd0 > 0 THEN cd0 - 1 ELSE cd0
        bl == BulletLoop(bs0, 1,
                [enemies |-> es2, bullets |-> << >>, score |-> score, ps |-> ps1,
                 hits |-> 0], r)
        el == EnemyBulletLoop(ebs1, 1, << >>, px, py)
        ps2 == IF el.hit
               THEN bl.ps \o createExplosion(px + Px(10), py + Px(12), r)
               ELSE bl.ps
        body == \E i \in 1..Len(bl.enemies) : EnemyHitsPlayer(bl.enemies[i], px, py)
        ps3 == IF body
               THEN ps2 \o createExplosion(px + Px(10), py + Px(12), r)
               ELSE ps2
    IN  [playerX |-> px,
         playerY |-> py,
         spawned |-> due,
         cleared |-> cleared,
         fired |-> fire,
         bulletHit |-> el.hit,
         bodyHit |-> body,
         moved |-> es1,
         targets |-> es2,
         shot |-> bs0,
         hits |-> bl.hits,
         incoming |-> ebs1,
         enemies |-> bl.enemies,
         currentSpawn |-> cs1,
         waveTimer |-> waveTimer + 1,
         bullets |-> bl.bullets,
         shootCooldown |-> cd1,
         score |-> bl.score,
         enemyBullets |-> el.bullets,
         particles |-> ps3,
         highScore |-> IF body /\ bl.score > highScore THEN bl.score ELSE highScore,
         gameState |-> IF el.hit \/ body THEN GameStatePlayerExplosion
                       ELSE IF cleared THEN GameStateStageClear
                       ELSE GameStatePlaying,
         stageClearTimer |-> sc.stageClearTimer,
         stageClearKeyReleased |-> sc.stageClearKeyReleased,
         playerExplosionTimer |-> IF el.hit \/ body THEN 0 ELSE playerExplosionTimer]

\* a Playing frame that triggers the sound whenever the fire key is held
UpdatePlayingSoundOnKey(k, r) ==
    /\ gameState = GameStatePlaying
    /\ waveTimer < MaxWaveTimer
    /\ (k.space /\ shootCooldown = 0 /\ \E q \in pad : ~q.space) =>
          shootCalls < MaxShots
    /\ \E f \in {PlayingFrame(k, r)} :
           /\ playerX' = f.playerX
           /\ playerY' = f.playerY
           /\ enemies' = f.enemies
           /\ currentSpawn' = f.currentSpawn
           /\ waveTimer' = f.waveTimer
           /\ bullets' = f.bullets
           /\ shootCooldown' = f.shootCooldown
           /\ shootCalls' = IF k.space THEN shootCalls + 1 ELSE shootCalls
           /\ score' = f.score
           /\ enemyBullets' = f.enemyBullets
           /\ particles' = f.particles
           /\ highScore' = f.highScore
           /\ gameState' = f.gameState
           /\ stageClearTimer' = f.stageClearTimer
           /\ stageClearKeyReleased' = f.stageClearKeyReleased
           /\ playerExplosionTimer' = f.playerExplosionTimer
    /\ UNCHANGED << waves, currentStage, stages, script >>
    /\ pad' = KeysAt(script, waveTimer')
    /\ UNCHANGED audioVars

\* case GameStatePlaying
UpdatePlaying(k, r) ==
    /\ gameState = GameStatePlaying
    /\ waveTimer < MaxWaveTimer
    /\ (k.space /\ shootCooldown = 0 /\ \E q \in pad : ~q.space) =>
          shootCalls < MaxShots
    /\ \E f \in {PlayingFrame(k, r)} :
           /\ playerX' = f.playerX
           /\ playerY' = f.playerY
           /\ enemies' = f.enemies
           /\ currentSpawn' = f.currentSpawn
           /\ waveTimer' = f.waveTimer
           /\ bullets' = f.bullets
           /\ shootCooldown' = f.shootCooldown
           /\ shootCalls' = IF f.fired THEN shootCalls + 1 ELSE shootCalls
           /\ score' = f.score
           /\ enemyBullets' = f.enemyBullets
           /\ particles' = f.particles
           /\ highScore' = f.highScore
           /\ gameState' = f.gameState
           /\ stageClearTimer' = f.stageClearTimer
           /\ stageClearKeyReleased' = f.stageClearKeyReleased
           /\ playerExplosionTimer' = f.playerExplosionTimer
    /\ UNCHANGED << waves, currentStage, stages, script >>
    /\ pad' = KeysAt(script, waveTimer')
    /\ UNCHANGED audioVars

\* an explosion that ends one frame early
UpdatePlayerExplosionEarly ==
    /\ gameState = GameStatePlayerExplosion
    /\ particles' = UpdateParticles(particles)
    /\ playerExplosionTimer' = playerExplosionTimer + 1
    /\ gameState' = IF playerExplosionTimer + 1 >= 60
                    THEN GameStateGameOver ELSE gameState
    /\ UNCHANGED << playerX, playerY, bullets, shootCooldown, enemies, waves,
                    waveTimer, currentSpawn, score, highScore, currentStage,
                    stageClearTimer, stageClearKeyReleased, enemyBullets,
                    stages, script, shootCalls >>
    /\ pad' = KeysAt(script, waveTimer')
    /\ UNCHANGED audioVars

\* case GameStatePlayerExplosion
UpdatePlayerExplosion ==
    /\ gameState = GameStatePlayerExplosion
    /\ particles' = UpdateParticles(particles)
    /\ playerExplosionTimer' = playerExplosionTimer + 1
    /\ gameState' = IF playerExplosionTimer + 1 > 60
                    THEN GameStateGameOver ELSE gameState
    /\ UNCHANGED << playerX, playerY, bullets, shootCooldown, enemies, waves,
                    waveTimer, currentSpawn, score, highScore, currentStage,
                    stageClearTimer, stageClearKeyReleased, enemyBullets,
                    stages, script, shootCalls >>
    /\ pad' = KeysAt(script, waveTimer')
    /\ UNCHANGED audioVars

\* a stage advance that keeps the wave list of the stage just cleared
AdvanceStageStaleWaves ==
    IF currentStage + 1 >= Len(stages)
    THEN /\ currentStage' = currentStage + 1
         /\ gameState' = GameStateGameOver
         /\ highScore' = IF score > highScore THEN score ELSE highScore
         /\ UNCHANGED << waves, currentSpawn, waveTimer, enemies, bullets,
                         enemyBullets >>
    ELSE /\ currentStage' = currentStage + 1
         /\ UNCHANGED waves
         /\ currentSpawn' = 0
         /\ waveTimer' = 0
         /\ enemies' = << >>
         /\ bullets' = << >>
         /\ enemyBullets' = << >>
         /\ gameState' = GameStatePlaying
         /\ UNCHANGED highScore

\* a stage advance that leaves the enemy bullets in flight
AdvanceStageKeepsEnemyBullets ==
    IF currentStage + 1 >= Len(stages)
    THEN /\ currentStage' = currentStage + 1
         /\ gameState' = GameStateGameOver
         /\ highScore' = IF score > highScore THEN score ELSE highScore
         /\ UNCHANGED << waves, currentSpawn, waveTimer, enemies, bullets,
                         enemyBullets >>
    ELSE /\ currentStage' = currentStage + 1
         /\ waves' = stages[currentStage + 2].Waves
         /\ currentSpawn' = 0
         /\ waveTimer' = 0
         /\ enemies' = << >>
         /\ bullets' = << >>
         /\ UNCHANGED enemyBullets
         /\ gameState' = GameStatePlaying
         /\ UNCHANGED highScore

\* a stage advance that steps over a stage when two more are configured
AdvanceStageSkips ==
    IF currentStage + 2 < Len(stages)
    THEN /\ currentStage' = currentStage + 2
         /\ waves' = stages[currentStage + 3].Waves
         /\ currentSpawn' = 0
         /\ waveTimer' = 0
         /\ enemies' = << >>
         /\ bullets' = << >>
         /\ enemyBullets' = << >>
         /\ gameState' = GameStatePlaying
         /\ UNCHANGED highScore
    ELSE IF currentStage + 1 >= Len(stages)
    THEN /\ currentStage' = currentStage + 1
         /\ gameState' = GameStateGameOver
         /\ highScore' = IF score > highScore THEN score ELSE highScore
         /\ UNCHANGED << waves, currentSpawn, waveTimer, enemies, bullets,
                         enemyBullets >>
    ELSE /\ currentStage' = currentStage + 1
         /\ waves' = stages[currentStage + 2].Waves
         /\ currentSpawn' = 0
         /\ waveTimer' = 0
         /\ enemies' = << >>
         /\ bullets' = << >>
         /\ enemyBullets' = << >>
         /\ gameState' = GameStatePlaying
         /\ UNCHANGED highScore

\* a stage advance that leaves the spawn cursor where it is
AdvanceStageKeepsCursor ==
    IF currentStage + 1 >= Len(stages)
    THEN /\ currentStage' = currentStage + 1
         /\ gameState' = GameStateGameOver
         /\ highScore' = IF score > highScore THEN score ELSE highScore
         /\ UNCHANGED << waves, currentSpawn, waveTimer, enemies, bullets,
                         enemyBullets >>
    ELSE /\ currentStage' = currentStage + 1
         /\ waves' = stages[currentStage + 2].Waves
         /\ UNCHANGED currentSpawn
         /\ waveTimer' = 0
         /\ enemies' = << >>
         /\ bullets' = << >>
         /\ enemyBullets' = << >>
         /\ gameState' = GameStatePlaying
         /\ UNCHANGED highScore

\* the stage advance of case GameStateStageClear (both copies of the block)
AdvanceStage ==
    IF currentStage + 1 >= Len(stages)
    THEN /\ currentStage' = currentStage + 1
         /\ gameState' = GameStateGameOver
         /\ highScore' = IF score > highScore THEN score ELSE highScore
         /\ UNCHANGED << waves, currentSpawn, waveTimer, enemies, bullets,
                         enemyBullets >>
    ELSE /\ currentStage' = currentStage + 1
         /\ waves' = stages[currentStage + 2].Waves
         /\ currentSpawn' = 0
         /\ waveTimer' = 0
         /\ enemies' = << >>
         /\ bullets' = << >>
         /\ enemyBullets' = << >>
         /\ gameState' = GameStatePlaying
         /\ UNCHANGED highScore

\* a key-driven advance without the release debounce
KeyAdvanceNoRelease(t, released, k) == t > 60 /\ k.space

\* the key-driven advance is taken this frame (timer t after the increment)
KeyAdvance(t, released, k) == t > 60 /\ released /\ k.space

\* the timed advance is taken this frame
AutoAdvance(t) == t > 120

\* a StageClear frame in which the shoot cooldown keeps running down
UpdateStageClearCoolsDown(k) ==
    /\ gameState = GameStateStageClear
    /\ particles' = UpdateParticles(particles)
    /\ stageClearTimer' = stageClearTimer + 1
    /\ stageClearKeyReleased' =
          IF stageClearTimer + 1 > 60 /\ ~k.space THEN TRUE
          ELSE stageClearKeyReleased
    /\ IF \/ KeyAdvance(stageClearTimer + 1, stageClearKeyReleased', k)
          \/ AutoAdvance(stageClearTimer + 1)
       THEN AdvanceStage
       ELSE UNCHANGED << currentStage, gameState, highScore, waves,
                         currentSpawn, waveTimer, enemies, bullets, enemyBullets >>
    /\ shootCooldown' = IF shootCooldown > 0 THEN shootCooldown - 1 ELSE 0
    /\ UNCHANGED << playerX, playerY, score,
                    playerExplosionTimer, stages, script, shootCalls >>
    /\ pad' = KeysAt(script, waveTimer')
    /\ UNCHANGED audioVars

\* case GameStateStageClear
UpdateStageClear(k) ==
    /\ gameState = GameStateStageClear
    /\ particles' = UpdateParticles(particles)
    /\ stageClearTimer' = stageClearTimer + 1
    /\ stageClearKeyReleased' =
          IF stageClearTimer + 1 > 60 /\ ~k.space THEN TRUE
          ELSE stageClearKeyReleased
    /\ IF \/ KeyAdvance(stageClearTimer + 1, stageClearKeyReleased', k)
          \/ AutoAdvance(stageClearTimer + 1)
       THEN AdvanceStage
       ELSE UNCHANGED << currentStage, gameState, highScore, waves,
                         currentSpawn, waveTimer, enemies, bullets, enemyBullets >>
    /\ UNCHANGED << playerX, playerY, shootCooldown, score,
                    playerExplosionTimer, stages, script, shootCalls >>
    /\ pad' = KeysAt(script, waveTimer')
    /\ UNCHANGED audioVars

\* a restart that leaves the player where they were
RestartKeepsPosition ==
    LET g == NewGameFields(stages)
    IN  /\ playerX' = playerX
        /\ playerY' = playerY
        /\ bullets' = g.bullets
        /\ shootCooldown' = g.shootCooldown
        /\ enemies' = g.enemies
        /\ waves' = g.waves
        /\ waveTimer' = g.waveTimer
        /\ currentSpawn' = g.currentSpawn
        /\ score' = g.score
        /\ highScore' = g.highScore
        /\ particles' = g.particles
        /\ currentStage' = g.currentStage
        /\ stageClearTimer' = g.stageClearTimer
        /\ stageClearKeyReleased' = g.stageClearKeyReleased
        /\ playerExplosionTimer' = g.playerExplosionTimer
        /\ enemyBullets' = g.enemyBullets
        /\ gameState' = GameStatePlaying

\* the session after *g = *NewGame(); g.gameState = GameStatePlaying
Restart ==
    LET g == NewGameFields(stages)
    IN  /\ playerX' = g.playerX
        /\ playerY' = g.playerY
        /\ bullets' = g.bullets
        /\ shootCooldown' = g.shootCooldown
        /\ enemies' = g.enemies
        /\ waves' = g.waves
        /\ waveTimer' = g.waveTimer
        /\ currentSpawn' = g.currentSpawn
        /\ score' = g.score
        /\ highScore' = g.highScore
        /\ particles' = g.particles
        /\ currentStage' = g.currentStage
        /\ stageClearTimer' = g.stageClearTimer
        /\ stageClearKeyReleased' = g.stageClearKeyReleased
        /\ playerExplosionTimer' = g.playerExplosionTimer
        /\ enemyBullets' = g.enemyBullets
        /\ gameState' = GameStatePlaying

\* case GameStateGameOver
UpdateGameOver(k) ==
    /\ gameState = GameStateGameOver
    /\ IF k.r
       THEN Restart
       ELSE /\ \A i \in 1..Len(enemies) : enemies[i].time < MaxEnemyTime
            /\ particles' = UpdateParticles(particles)
            /\ enemies' = SelectSeq([i \in 1..Len(enemies) |->
                                        MoveEnemyGameOver(enemies[i])], OnScreen)
            /\ UNCHANGED << playerX, playerY, bullets, shootCooldown, waves,
                            waveTimer, currentSpawn, score, highScore, gameState,
                            currentStage, stageClearTimer, stageClearKeyReleased,
                            playerExplosionTimer, enemyBullets >>
    /\ UNCHANGED << stages, script, shootCalls >>
    /\ pad' = KeysAt(script, waveTimer')
    /\ UNCHANGED audioVars

\* one call of Game.Update with the keys k held (rand is read in Playing)
Update(k) ==
    \/ UpdateTitle(k)
    \/ \E r \in RandDraws : UpdatePlaying(k, r)
    \/ UpdatePlayerExplosion
    \/ UpdateStageClear(k)
    \/ UpdateGameOver(k)

Next ==
    \/ \E k \in pad : UpdateTitle(k)
    \/ \E k \in pad : \E r \in RandDraws : UpdatePlaying(k, r)
    \/ UpdatePlayerExplosion
    \/ \E k \in pad : UpdateStageClear(k)
    \/ \E k \in pad : UpdateGameOver(k)

Spec == Init /\ [][Next]_vars

\* the frame counter of a Playing frame: updateWaves adds one to waveTimer
PlayingTick ==
    /\ gameState = GameStatePlaying
    /\ waveTimer < MaxWaveTimer
    /\ waveTimer' = waveTimer + 1

\* the game loop calls Update frame after frame: a game that stays in
\* Playing gets its next frame
FairSpec == Init /\ [][Next]_vars /\ WF_waveTimer(PlayingTick)

\* a new game on the stage data of StagesSteer, played by ScriptSteer
SteerInit ==
    LET g == NewGameFields(StagesSteer)
    IN  /\ stages = StagesSteer
        /\ script = ScriptSteer
        /\ pad = KeysAt(ScriptSteer, 0)
        /\ shootCalls = 0
        /\ playerX = g.playerX
        /\ playerY = g.playerY
        /\ bullets = g.bullets
        /\ shootCooldown = g.shootCooldown
        /\ enemies = g.enemies
        /\ waves = g.waves
        /\ waveTimer = g.waveTimer
        /\ currentSpawn = g.currentSpawn
        /\ score = g.score
        /\ highScore = g.highScore
        /\ gameState = g.gameState
        /\ particles = g.particles
        /\ currentStage = g.currentStage
        /\ stageClearTimer = g.stageClearTimer
        /\ stageClearKeyReleased = g.stageClearKeyReleased
        /\ playerExplosionTimer = g.playerExplosionTimer
        /\ enemyBullets = g.enemyBullets
        /\ AudioInitialized

SteerSpec == SteerInit /\ [][Next]_vars

-----------------------------------------------------------------------------
(* The Playing frame applied to bullet collections drawn from bounded sets:
   one player bullet and one enemy bullet that the frame's move takes to the
   left or right edge of the keep tests, or one pixel inside it *)

\* the x coordinates at the edges of the keep tests and one pixel inside
EdgeColumns == {-Px(8), -Px(7), Px(screenWidth + 7), Px(screenWidth + 8)}

\* player bullets, with the velocities of FireBullets, that reach an edge
\* column by their next move
EdgeBullets ==
    {Bullet(x - vx, Px(200), vx, -11984) : x \in EdgeColumns, vx \in {-628, 628}}

\* enemy bullets, with the velocities of the diagonal patterns 2 and 3, that
\* reach an edge column by their next move
EdgeEnemyBullets ==
    {EnemyBullet(x - vx, Px(100), vx, Px(4)) : x \in EdgeColumns, vx \in {-Px(2), Px(2)}}

EdgeInit ==
    \E b \in EdgeBullets : \E eb \in EdgeEnemyBullets :
        LET g == NewGameFields(StagesCadence)
        IN  /\ stages = StagesCadence
            /\ script = Hold({NoKey})
            /\ pad = {NoKey}
            /\ shootCalls = 0
            /\ playerX = g.playerX
            /\ playerY = g.playerY
            /\ bullets = << b >>
            /\ shootCooldown = g.shootCooldown
            /\ enemies = g.enemies
            /\ waves = g.waves
            /\ waveTimer = g.waveTimer
            /\ currentSpawn = g.currentSpawn
            /\ score = g.score
            /\ highScore = g.highScore
            /\ gameState = GameStatePlaying
            /\ particles = g.particles
            /\ currentStage = g.currentStage
            /\ stageClearTimer = g.stageClearTimer
            /\ stageClearKeyReleased = g.stageClearKeyReleased
            /\ playerExplosionTimer = g.playerExplosionTimer
            /\ enemyBullets = << eb >>
            /\ AudioInitialized

EdgeNext == \E k \in pad : \E r \in RandDraws : UpdatePlaying(k, r)

EdgeSpec == EdgeInit /\ [][EdgeNext]_vars

-----------------------------------------------------------------------------
(* The sound manager: goroutines that call its methods, and the callbacks of
   the stop timers.  One step is one stretch of a call between two mutex
   operations. *)

\* the calls of method m that are under way
Running(m) == Cardinality({t \in Threads : calls[t].op = m})

\* the exploration admits a call of method m: fewer than plays timers and
\* fewer than loads effects are created or about to be
Admits(m, plays, loads) ==
    /\ m = "Play" => Len(timers) + Running("Play") < plays
    /\ m = "LoadSound" => Len(effects) + Running("LoadSound") < loads

\* goroutine t calls method m for the sound name with argument arg
Call(t, m, name, arg) ==
    /\ calls[t].op = "idle"
    /\ calls' = [calls EXCEPT ![t] = [op |-> m, at |-> "enter", name |-> name,
                                      snd |-> 0, arg |-> arg]]
    /\ UNCHANGED << smMutex, sounds, effects, timers >>
    /\ UNCHANGED gameVars

\* sm.mutex.Lock() at the head of every method
LockManager(t) ==
    /\ calls[t].at = "enter"
    /\ smMutex = Free
    /\ smMutex' = ByThread(t)
    /\ calls' = [calls EXCEPT ![t].at = "manager"]
    /\ UNCHANGED << sounds, effects, timers >>
    /\ UNCHANGED gameVars

\* sound, exists := sm.sounds[name]; sm.mutex.Unlock(); return if !exists
Lookup(t) ==
    /\ calls[t].at = "manager"
    /\ calls[t].op # "LoadSound"
    /\ smMutex' = Free
    /\ calls' = IF sounds[calls[t].name] = 0
                THEN [calls EXCEPT ![t] = Idle]
                ELSE [calls EXCEPT ![t].at = "lock", ![t].snd = sounds[calls[t].name]]
    /\ UNCHANGED << sounds, effects, timers >>
    /\ UNCHANGED gameVars

\* the body of LoadSound under sm.mutex; ok is FALSE when reading or
\* decoding fails
LoadSoundBody(t, ok) ==
    /\ calls[t].at = "manager"
    /\ calls[t].op = "LoadSound"
    /\ IF ok
       THEN /\ effects' = Append(effects, NewSoundEffect)
            /\ sounds' = [sounds EXCEPT ![calls[t].name] = Len(effects) + 1]
       ELSE UNCHANGED << effects, sounds >>
    /\ smMutex' = Free
    /\ calls' = [calls EXCEPT ![t] = Idle]
    /\ UNCHANGED timers
    /\ UNCHANGED gameVars

\* sound.mutex.Lock()
LockSound(t) ==
    /\ calls[t].at = "lock"
    /\ effects[calls[t].snd].mutex = Free
    /\ effects' = [effects EXCEPT ![calls[t].snd].mutex = ByThread(t)]
    /\ calls' = [calls EXCEPT ![t].at = "body"]
    /\ UNCHANGED << smMutex, sounds, timers >>
    /\ UNCHANGED gameVars

\* (*time.Timer).Stop on timer i (0 is nil: no call): a timer that has not
\* fired never does; Stop does not wait for a callback that has started
StopTimer(ts, i) ==
    IF i # 0 /\ ts[i].st = "armed" THEN [ts EXCEPT ![i].st = "stopped"] ELSE ts

\* a Play that returns without unlocking sound.mutex
PlayBodyKeepsLock(t) ==
    /\ calls[t].at = "body"
    /\ calls[t].op = "Play"
    /\ LET s == calls[t].snd
           e == effects[s]
           free == {c \in Channels : ~e.isPlaying[c]}
           channel == IF free = {} THEN 1
                      ELSE CHOOSE c \in free : \A d \in free : c <= d
           ts1 == IF free = {} THEN StopTimer(timers, e.stopTimers[channel])
                  ELSE timers
           ts2 == StopTimer(ts1, e.stopTimers[channel])
       IN  /\ timers' = Append(ts2, [snd |-> s, channel |-> channel, st |-> "armed"])
           /\ effects' = [effects EXCEPT ![s] =
                             [e EXCEPT !.isPlaying[channel] = TRUE,
                                       !.stopTimers[channel] = Len(timers) + 1]]
    /\ calls' = [calls EXCEPT ![t] = Idle]
    /\ UNCHANGED << smMutex, sounds >>
    /\ UNCHANGED gameVars

\* a Play that takes the highest idle channel
PlayBodyLastChannel(t) ==
    /\ calls[t].at = "body"
    /\ calls[t].op = "Play"
    /\ LET s == calls[t].snd
           e == effects[s]
           free == {c \in Channels : ~e.isPlaying[c]}
           channel == IF free = {} THEN 1
                      ELSE CHOOSE c \in free : \A d \in free : c >= d
           ts1 == IF free = {} THEN StopTimer(timers, e.stopTimers[channel])
                  ELSE timers
           ts2 == StopTimer(ts1, e.stopTimers[channel])
       IN  /\ timers' = Append(ts2, [snd |-> s, channel |-> channel, st |-> "armed"])
           /\ effects' = [effects EXCEPT ![s] =
                             [e EXCEPT !.isPlaying[channel] = TRUE,
                                       !.stopTimers[channel] = Len(timers) + 1,
                                       !.mutex = Free]]
    /\ calls' = [calls EXCEPT ![t] = Idle]
    /\ UNCHANGED << smMutex, sounds >>
    /\ UNCHANGED gameVars

\* the body of Play under sound.mutex, and the deferred Unlock
PlayBody(t) ==
    /\ calls[t].at = "body"
    /\ calls[t].op = "Play"
    /\ LET s == calls[t].snd
           e == effects[s]
           free == {c \in Channels : ~e.isPlaying[c]}
           channel == IF free = {} THEN 1
                      ELSE CHOOSE c \in free : \A d \in free : c <= d
           ts1 == IF free = {} THEN StopTimer(timers, e.stopTimers[channel])
                  ELSE timers
           ts2 == StopTimer(ts1, e.stopTimers[channel])
       IN  /\ timers' = Append(ts2, [snd |-> s, channel |-> channel, st |-> "armed"])
           /\ effects' = [effects EXCEPT ![s] =
                             [e EXCEPT !.isPlaying[channel] = TRUE,
                                       !.stopTimers[channel] = Len(timers) + 1,
                                       !.mutex = Free]]
    /\ calls' = [calls EXCEPT ![t] = Idle]
    /\ UNCHANGED << smMutex, sounds >>
    /\ UNCHANGED gameVars

\* the channels of e after the loop of Stop
RECURSIVE StopChannels(_, _, _)
StopChannels(e, ts, c) ==
    IF c > MaxChannels THEN [e |-> e, ts |-> ts]
    ELSE IF e.isPlaying[c]
         THEN StopChannels([e EXCEPT !.isPlaying[c] = FALSE, !.stopTimers[c] = 0],
                           StopTimer(ts, e.stopTimers[c]), c + 1)
         ELSE StopChannels(e, ts, c + 1)

\* the body of Stop under sound.mutex, and the deferred Unlock
StopBody(t) ==
    /\ calls[t].at = "body"
    /\ calls[t].op = "Stop"
    /\ LET s == calls[t].snd
           r == StopChannels(effects[s], timers, 1)
       IN  /\ timers' = r.ts
           /\ effects' = [effects EXCEPT ![s] = [r.e EXCEPT !.mutex = Free]]
    /\ calls' = [calls EXCEPT ![t] = Idle]
    /\ UNCHANGED << smMutex, sounds >>
    /\ UNCHANGED gameVars

\* the body of SetVolume under sound.mutex, and the deferred Unlock
SetVolumeBody(t) ==
    /\ calls[t].at = "body"
    /\ calls[t].op = "SetVolume"
    /\ effects' = [effects EXCEPT ![calls[t].snd].volume = calls[t].arg,
                                  ![calls[t].snd].mutex = Free]
    /\ calls' = [calls EXCEPT ![t] = Idle]
    /\ UNCHANGED << smMutex, sounds, timers >>
    /\ UNCHANGED gameVars

\* the body of SetPan under sound.mutex, and the deferred Unlock
SetPanBody(t) ==
    /\ calls[t].at = "body"
    /\ calls[t].op = "SetPan"
    /\ effects' = [effects EXCEPT ![calls[t].snd].pan = calls[t].arg,
                                  ![calls[t].snd].mutex = Free]
    /\ calls' = [calls EXCEPT ![t] = Idle]
    /\ UNCHANGED << smMutex, sounds, timers >>
    /\ UNCHANGED gameVars

\* SoundDuration has passed on timer i: its callback starts in a goroutine
\* of its own
TimerFire(i) ==
    /\ timers[i].st = "armed"
    /\ timers' = [timers EXCEPT ![i].st = "fired"]
    /\ UNCHANGED << smMutex, sounds, effects, calls >>
    /\ UNCHANGED gameVars

\* sound.mutex.Lock() of the callback of timer i
CallbackLock(i) ==
    /\ timers[i].st = "fired"
    /\ effects[timers[i].snd].mutex = Free
    /\ effects' = [effects EXCEPT ![timers[i].snd].mutex = ByTimer(i)]
    /\ timers' = [timers EXCEPT ![i].st = "locked"]
    /\ UNCHANGED << smMutex, sounds, calls >>
    /\ UNCHANGED gameVars

\* the body of the callback of timer i, and the deferred Unlock
CallbackBody(i) ==
    /\ timers[i].st = "locked"
    /\ LET s == timers[i].snd
           c == timers[i].channel
           e == effects[s]
       IN  effects' = [effects EXCEPT ![s] =
                          IF e.isPlaying[c]
                          THEN [e EXCEPT !.isPlaying[c] = FALSE,
                                         !.stopTimers[c] = 0,
                                         !.mutex = Free]
                          ELSE [e EXCEPT !.mutex = Free]]
    /\ timers' = [timers EXCEPT ![i].st = "done"]
    /\ UNCHANGED << smMutex, sounds, calls >>
    /\ UNCHANGED gameVars

\* the argument that callers pass to method m: the volume 0.7 and the pan
\* 0.0 of Initialize, in tenths; none to the other methods
Levels(m) == IF m = "SetVolume" THEN {7} ELSE {0}

AudioInit ==
    /\ AudioEmpty
    /\ LET g == NewGameFields(StagesDuel)
       IN  /\ stages = StagesDuel
           /\ script = Hold({NoKey})
           /\ pad = {NoKey}
           /\ shootCalls = 0
           /\ playerX = g.playerX
           /\ playerY = g.playerY
           /\ bullets = g.bullets
           /\ shootCooldown = g.shootCooldown
           /\ enemies = g.enemies
           /\ waves = g.waves
           /\ waveTimer = g.waveTimer
           /\ currentSpawn = g.currentSpawn
           /\ score = g.score
           /\ highScore = g.highScore
           /\ gameState = g.gameState
           /\ particles = g.particles
           /\ currentStage = g.currentStage
           /\ stageClearTimer = g.stageClearTimer
           /\ stageClearKeyReleased = g.stageClearKeyReleased
           /\ playerExplosionTimer = g.playerExplosionTimer
           /\ enemyBullets = g.enemyBullets

AudioNext ==
    \/ \E t \in Threads : \E m \in Methods : \E n \in Names : \E a \in Levels(m) :
          Admits(m, MaxPlays, MaxLoads) /\ Call(t, m, n, a)
    \/ \E t \in Threads : LockManager(t)
    \/ \E t \in Threads : Lookup(t)
    \/ \E t \in Threads : \E ok \in BOOLEAN : LoadSoundBody(t, ok)
    \/ \E t \in Threads : LockSound(t)
    \/ \E t \in Threads : PlayBody(t)
    \/ \E t \in Threads : StopBody(t)
    \/ \E t \in Threads : SetVolumeBody(t)
    \/ \E t \in Threads : SetPanBody(t)
    \/ \E i \in 1..Len(timers) : TimerFire(i)
    \/ \E i \in 1..Len(timers) : CallbackLock(i)
    \/ \E i \in 1..Len(timers) : CallbackBody(i)

\* a goroutine that is inside a call keeps running, and sync.Mutex hands the
\* lock to a goroutine that keeps waiting for it (starvation mode); a
\* goroutine is at one place of one call, so at most one of its lock steps
\* and at most one of its other steps can be enabled at a time
AudioFairness ==
    /\ \A t \in Threads :
          /\ SF_vars(LockManager(t) \/ LockSound(t))
          /\ WF_vars(\/ Lookup(t)
                     \/ \E ok \in BOOLEAN : LoadSoundBody(t, ok)
                     \/ PlayBody(t)
                     \/ StopBody(t)
                     \/ SetVolumeBody(t)
                     \/ SetPanBody(t))
    /\ \A i \in 1..MaxPlays :
          /\ SF_vars(i <= Len(timers) /\ CallbackLock(i))
          /\ WF_vars(i <= Len(timers) /\ CallbackBody(i))

AudioSpec == AudioInit /\ [][AudioNext]_vars /\ AudioFairness

\* the manager as Initialize leaves it, in a session on the title screen
ChannelInit ==
    /\ AudioInitialized
    /\ LET g == NewGameFields(StagesDuel)
       IN  /\ stages = StagesDuel
           /\ script = Hold({NoKey})
           /\ pad = {NoKey}
           /\ shootCalls = 0
           /\ playerX = g.playerX
           /\ playerY = g.playerY
           /\ bullets = g.bullets
           /\ shootCooldown = g.shootCooldown
           /\ enemies = g.enemies
           /\ waves = g.waves
           /\ waveTimer = g.waveTimer
           /\ currentSpawn = g.currentSpawn
           /\ score = g.score
           /\ highScore = g.highScore
           /\ gameState = g.gameState
           /\ particles = g.particles
           /\ currentStage = g.currentStage
           /\ stageClearTimer = g.stageClearTimer
           /\ stageClearKeyReleased = g.stageClearKeyReleased
           /\ playerExplosionTimer = g.playerExplosionTimer
           /\ enemyBullets = g.enemyBullets

\* the goroutines play and stop the loaded sound; the timers run
ChannelNext ==
    \/ \E t \in Threads : \E m \in {"Play", "Stop"} : \E n \in Names :
          Admits(m, MaxChannelPlays, 0) /\ Call(t, m, n, 0)
    \/ \E t \in Threads : LockManager(t)
    \/ \E t \in Threads : Lookup(t)
    \/ \E t \in Threads : LockSound(t)
    \/ \E t \in Threads : PlayBody(t)
    \/ \E t \in Threads : StopBody(t)
    \/ \E i \in 1..Len(timers) : TimerFire(i)
    \/ \E i \in 1..Len(timers) : CallbackLock(i)
    \/ \E i \in 1..Len(timers) : CallbackBody(i)

\* as AudioFairness, and a timer that is armed fires when SoundDuration
\* has passed
ChannelFairness ==
    /\ \A t \in Threads :
          /\ SF_vars(LockManager(t) \/ LockSound(t))
          /\ WF_vars(Lookup(t) \/ PlayBody(t) \/ StopBody(t))
    /\ \A i \in 1..MaxChannelPlays :
          /\ WF_vars(i <= Len(timers) /\ TimerFire(i))
          /\ SF_vars(i <= Len(timers) /\ CallbackLock(i))
          /\ WF_vars(i <= Len(timers) /\ CallbackBody(i))

ChannelSpec == ChannelInit /\ [][ChannelNext]_vars /\ ChannelFairness

\* ------------------------------------------------------------------------
\* Properties of the game-state machine

\* the larger of two integers
Max(a, b) == IF a > b THEN a ELSE b

\* this step is a GameOver frame with the restart key held
RestartFrame ==
    /\ gameState = GameStateGameOver
    /\ \E k \in pad : k.r /\ UpdateGameOver(k)

\* C1: the high score survives a restart: for every session in GameOver,
\* after a frame in which the restart key is held the high score equals the
\* value it had before that frame.
C1_HighScoreSurvivesRestart ==
    [][RestartFrame => highScore' = highScore]_vars

\* C2: a restart is a round trip to a fresh session: after a GameOver frame
\* with the restart key held the score is 0, the enemy, bullet, enemy-bullet
\* and particle lists are empty, the stage index is 0 with the first stage's
\* waves, the spawn cursor and wave timer are 0, the player stands at the
\* position of a freshly constructed session and the state is Playing.
C2_RestartRoundTrip ==
    [][RestartFrame =>
          /\ score' = 0
          /\ enemies' = << >>
          /\ bullets' = << >>
          /\ enemyBullets' = << >>
          /\ particles' = << >>
          /\ currentStage' = 0
          /\ waves' = stages[1].Waves
          /\ currentSpawn' = 0
          /\ waveTimer' = 0
          /\ playerX' = Px(320)
          /\ playerY' = Px(408)
          /\ gameState' = GameStatePlaying]_vars

\* a session that has fired a shot and stands at the very start of stage 0
\* in Playing: it was restarted
C2_Restarted ==
    /\ gameState = GameStatePlaying
    /\ currentStage = 0
    /\ waveTimer = 0
    /\ shootCalls > 0

\* this step is a Playing frame in which an enemy bullet overlaps the player
EnemyBulletStrikes ==
    \E k \in pad : \E r \in RandDraws :
        UpdatePlaying(k, r) /\ PlayingFrame(k, r).bulletHit

\* this step is a Playing frame whose stage-clear test passes: the cursor is
\* exhausted and no enemy is left once spawning, movement and off-screen
\* removal are done (a frame that loses enemies to bullets raises the score)
ClearedAtCheck ==
    /\ gameState = GameStatePlaying
    /\ currentSpawn' >= Len(waves)
    /\ enemies' = << >>
    /\ score' = score

\* C3 as stated: in a Playing frame whose stage-clear test passes, the state
\* at the end of the frame is StageClear with the stage-clear timer 0 and the
\* key-released flag false.
C3_ClearEndsInStageClear ==
    [][ClearedAtCheck =>
          /\ gameState' = GameStateStageClear
          /\ stageClearTimer' = 0
          /\ stageClearKeyReleased' = FALSE]_vars

\* C3 amended: in a Playing frame whose stage-clear test passes, the stage-
\* clear timer is 0 and the key-released flag false at the end of the frame,
\* and the state is StageClear unless an enemy bullet overlaps the player in
\* that same frame, in which case it is PlayerExplosion.
C3_ClearUnlessStruck ==
    [][ClearedAtCheck =>
          /\ gameState' = IF EnemyBulletStrikes THEN GameStatePlayerExplosion
                          ELSE GameStateStageClear
          /\ stageClearTimer' = 0
          /\ stageClearKeyReleased' = FALSE]_vars

\* a later stage has just been cleared: the timer and the flag left over from
\* the previous StageClear are reset
C3_LaterStageCleared ==
    /\ gameState = GameStateStageClear
    /\ currentStage = 1
    /\ stageClearTimer = 0
    /\ stageClearKeyReleased = FALSE

\* C4: both causes of a hit give the same PlayerExplosion entry: whenever a
\* Playing frame ends in PlayerExplosion the explosion timer is 0 and the
\* high score is the larger of its previous value and the score.
C4_HitRecordsHighScore ==
    [][(gameState = GameStatePlaying /\ gameState' = GameStatePlayerExplosion) =>
          /\ playerExplosionTimer' = 0
          /\ highScore' = Max(highScore, score')]_vars

\* sum of the delays of waves 0..i, front to back
RECURSIVE PrefixDelay(_, _)
PrefixDelay(ws, i) ==
    IF i < 0 THEN 0 ELSE PrefixDelay(ws, i - 1) + ws[i + 1].Delay

\* the wave-timer value of the frame that instantiates wave i when at most
\* one wave is instantiated per frame
RECURSIVE SpawnTick(_, _)
SpawnTick(ws, i) ==
    IF i = 0 THEN PrefixDelay(ws, 0)
    ELSE Max(PrefixDelay(ws, i), SpawnTick(ws, i - 1) + 1)

\* this step is a Playing frame that instantiates the wave under the cursor
SpawnsWave ==
    /\ gameState = GameStatePlaying
    /\ currentSpawn' = currentSpawn + 1

\* C5 as stated: the enemy of wave i is instantiated in the Playing frame
\* whose wave-timer value equals the sum of the delays of waves 0..i.
C5_SpawnAtPrefixSum ==
    [][SpawnsWave => waveTimer = PrefixDelay(waves, currentSpawn)]_vars

\* C5 amended: a Playing frame instantiates the wave under the cursor exactly
\* when its wave-timer value is the first one that is at least the sum of
\* the delays of waves 0..i and later than the frame of wave i-1 (one wave
\* per frame); with the delays 0, 30, 30 that is at 0, 30 and 60.
C5_SpawnSchedule ==
    [][gameState = GameStatePlaying =>
          (SpawnsWave <=> /\ currentSpawn < Len(waves)
                          /\ waveTimer = SpawnTick(waves, currentSpawn))]_vars

\* the third wave of the delays 0, 30, 30 has just been instantiated by the
\* frame with wave-timer value 60
C5_ThirdWaveAtSixty ==
    /\ gameState = GameStatePlaying
    /\ waves = StagesCadence[1].Waves
    /\ currentSpawn = 3
    /\ waveTimer = 61

\* the state changes of the transition table
Transitions ==
    { << GameStateTitle, GameStatePlaying >>,
      << GameStatePlaying, GameStateStageClear >>,
      << GameStatePlaying, GameStatePlayerExplosion >>,
      << GameStatePlayerExplosion, GameStateGameOver >>,
      << GameStateStageClear, GameStatePlaying >>,
      << GameStateStageClear, GameStateGameOver >> ,
      << GameStateGameOver, GameStatePlaying >> }

\* C6: the game state changes only along Title -> Playing, Playing ->
\* StageClear, Playing -> PlayerExplosion, PlayerExplosion -> GameOver,
\* StageClear -> Playing, StageClear -> GameOver and GameOver -> Playing;
\* Title is never entered again, a Title frame leaves Title exactly when the
\* fire key is held, and GameOver is left only in a frame with the restart
\* key held.
C6_TransitionTable ==
    [][/\ gameState' # gameState => << gameState, gameState' >> \in Transitions
       /\ gameState' = GameStateTitle => gameState = GameStateTitle
       /\ \A k \in pad : UpdateTitle(k) => (gameState' # GameStateTitle <=> k.space)
       /\ \A k \in pad :
             (UpdateGameOver(k) /\ gameState' # GameStateGameOver) => k.r]_vars

\* GameOver entered from StageClear, by advancing past the last stage with
\* no point scored
C6_GameOverFromStageClear ==
    /\ gameState = GameStateGameOver
    /\ currentStage = Len(stages)
    /\ score = 0

\* C7: StageClear is never left while the stage-clear timer is at most 60;
\* it is left before the timer reaches 121 only in a frame with the fire key
\* held whose key-released flag was already set, the flag being set only by
\* a StageClear frame with the timer above 60 and the fire key not held; and
\* it is always left by the frame in which the timer reaches 121.
C7_StageClearTiming ==
    [][/\ (gameState = GameStateStageClear /\ gameState' # GameStateStageClear) =>
             /\ stageClearTimer' > 60
             /\ stageClearTimer' <= 120 =>
                   /\ stageClearKeyReleased
                   /\ \A k \in pad : UpdateStageClear(k) => k.space
       /\ (~stageClearKeyReleased /\ stageClearKeyReleased') =>
             /\ gameState = GameStateStageClear
             /\ stageClearTimer' > 60
             /\ \A k \in pad : UpdateStageClear(k) => ~k.space
       /\ (gameState = GameStateStageClear /\ stageClearTimer' > 120) =>
             gameState' # GameStateStageClear
       /\ gameState' = GameStateStageClear => stageClearTimer' <= 120]_vars

\* Playing of the second stage reached by a key-driven advance: the timer the
\* StageClear frame left behind is below 121
C7_AdvancedByKey ==
    /\ gameState = GameStatePlaying
    /\ currentStage = 1
    /\ stageClearTimer > 60
    /\ stageClearTimer < 121

\* C8: in Playing, StageClear and PlayerExplosion the stage index satisfies
\* 0 <= currentStage < number of stages and the wave list is that stage's;
\* the index equals the number of stages only in GameOver, where the high
\* score has been recorded.
C8_StageIndexInRange ==
    /\ currentStage >= 0
    /\ currentStage <= Len(stages)
    /\ gameState \in {GameStatePlaying, GameStateStageClear, GameStatePlayerExplosion} =>
          /\ currentStage < Len(stages)
          /\ waves = stages[currentStage + 1].Waves
    /\ currentStage = Len(stages) =>
          /\ gameState = GameStateGameOver
          /\ highScore >= score

\* GameOver past the last stage with points scored
C8_PastLastStage ==
    /\ gameState = GameStateGameOver
    /\ currentStage = Len(stages)
    /\ score > 0

\* C9: when StageClear advances and a next stage exists the result is
\* Playing with the stage index one higher, that stage's waves, spawn cursor
\* 0, wave timer 0 and empty enemy, bullet and enemy-bullet lists, while the
\* score, the high score and the player position are unchanged.
C9_AdvanceToNextStage ==
    [][/\ (gameState = GameStateStageClear /\ gameState' # GameStateStageClear
              /\ currentStage + 1 < Len(stages)) =>
             gameState' = GameStatePlaying
       /\ (gameState = GameStateStageClear /\ gameState' = GameStatePlaying) =>
             /\ currentStage' = currentStage + 1
             /\ currentStage' < Len(stages)
             /\ waves' = stages[currentStage' + 1].Waves
             /\ currentSpawn' = 0
             /\ waveTimer' = 0
             /\ enemies' = << >>
             /\ bullets' = << >>
             /\ enemyBullets' = << >>
             /\ UNCHANGED << score, highScore, playerX, playerY >>]_vars

\* the first frame of the second stage with the player where they moved to
\* during the first
C9_NextStageEntered ==
    /\ gameState = GameStatePlaying
    /\ currentStage = 1
    /\ waveTimer = 0
    /\ playerY > Px(408)

\* this step is a Playing frame in which the player's bullets destroy the
\* last enemy with the spawn cursor exhausted
LastEnemyShot ==
    /\ gameState = GameStatePlaying
    /\ currentSpawn' >= Len(waves)
    /\ enemies' = << >>
    /\ score' > score

\* the stage index changes only in a StageClear frame, by one, or in a
\* restart frame, to 0
StageIndexSteps ==
    currentStage' # currentStage =>
        \/ gameState = GameStateStageClear /\ currentStage' = currentStage + 1
        \/ RestartFrame /\ currentStage' = 0

\* C10 as stated: the stage index changes only in a StageClear frame (by
\* one) or a restart frame (to 0), so in the frame where a bullet destroys
\* the last enemy with the cursor exhausted the state is still Playing at
\* the end of the frame.
C10_KillFrameStaysPlaying ==
    [][/\ StageIndexSteps
       /\ LastEnemyShot => gameState' = GameStatePlaying]_vars

\* C10 amended: the stage index changes only in a StageClear frame (by one)
\* or a restart frame (to 0); in the frame where a bullet destroys the last
\* enemy with the cursor exhausted the stage and its waves are kept and the
\* state at the end of the frame is Playing, or PlayerExplosion when an
\* enemy bullet overlaps the player in that frame, never StageClear.
C10_KillFrameKeepsStage ==
    [][/\ StageIndexSteps
       /\ LastEnemyShot =>
             /\ gameState' = IF EnemyBulletStrikes THEN GameStatePlayerExplosion
                             ELSE GameStatePlaying
             /\ UNCHANGED << currentStage, waves >>]_vars

\* the last enemy of the first stage has been shot and the session is still
\* in Playing of that stage
C10_ShotLastEnemy ==
    /\ gameState = GameStatePlaying
    /\ currentStage = 0
    /\ currentSpawn >= Len(waves)
    /\ enemies = << >>
    /\ score > 0

\* ------------------------------------------------------------------------
\* Properties of the collision and enemy rules

\* sum of the hit points of the enemies es
RECURSIVE HpTotal(_)
HpTotal(es) == IF es = << >> THEN 0 ELSE Head(es).hp + HpTotal(Tail(es))

\* this step is a Playing frame that takes player bullets out of the
\* collection (by a hit or through an edge)
BulletsConsumed ==
    /\ gameState = GameStatePlaying
    /\ Len(bullets') < Len(bullets) + (IF shootCalls' > shootCalls THEN 3 ELSE 0)

\* C11: every registered player-bullet hit lowers the hit enemy's hit points
\* by exactly 1 (the hit points lost in a frame, an enemy removed counting as
\* 0, equal the hits registered in it, also when several bullets hit one
\* enemy), and after every frame every live enemy has hit points above 0.
C11_HitPoints ==
    [][/\ \A i \in 1..Len(enemies') : enemies'[i].hp > 0
       /\ BulletsConsumed =>
             \A k \in pad : \A r \in RandDraws :
                UpdatePlaying(k, r) =>
                   \A f \in {PlayingFrame(k, r)} :
                      HpTotal(f.targets) - HpTotal(enemies') = f.hits]_vars

\* a boss that two bullets of one volley have hit in the same frame
C11_VolleyLanded ==
    \E i \in 1..Len(enemies) :
        /\ enemies[i].enemyType = EnemyTypeBoss
        /\ enemies[i].hp = 48

\* the boss phase the stated durations give t frames after the spawn frame
\* began (Move 120, Telegraph 60, Attack 80, Rest 90)
PhaseByDuration(t) ==
    IF t <= 120 THEN 0
    ELSE IF t <= 180 THEN 1
    ELSE IF t <= 260 THEN 2
    ELSE 3

\* C12: a freshly spawned boss of default speed 2 is in Move for exactly 120
\* frames, then in Telegraph for exactly 60, then in Attack for exactly 80,
\* then in Rest for exactly 90, and then back in Move.
C12_PhaseDurations ==
    gameState = GameStatePlaying =>
        \A i \in 1..Len(enemies) :
            (/\ enemies[i].enemyType = EnemyTypeBoss
             /\ enemies[i].speed = Px(2)
             /\ enemies[i].time <= 350) =>
                enemies[i].bossState = PhaseByDuration(enemies[i].time)

\* this step is a Playing frame that begins with a boss among the enemies
BossFrame ==
    /\ gameState = GameStatePlaying
    /\ \E i \in 1..Len(enemies) : enemies[i].enemyType = EnemyTypeBoss

\* the bosses that are in Attack with a phase timer that this frame's
\* increment makes a multiple of 8
AttackTicks ==
    {i \in 1..Len(enemies) :
        /\ enemies[i].enemyType = EnemyTypeBoss
        /\ enemies[i].bossState = 2
        /\ (enemies[i].bossTimer + 1) % 8 = 0}

\* the bosses that fire a volley this frame: in Attack, with a phase timer
\* that is a multiple of 8 below 80 after this frame's increment
VolleyTicks == {i \in AttackTicks : enemies[i].bossTimer + 1 < 80}

\* the enemies (bosses included) whose shooter cooldown runs out this frame
CooldownTicks ==
    {i \in 1..Len(enemies) :
        /\ enemies[i].shootsBullet
        /\ enemies[i].bulletCooldown - 1 <= 0
        /\ enemies[i].bulletType \in 0..3}

\* no enemy other than a boss is a shooter
OnlyBossesShoot ==
    /\ \A i \in 1..Len(enemies) :
          enemies[i].enemyType # EnemyTypeBoss => ~enemies[i].shootsBullet
    /\ \A i \in 1..Len(waves) :
          waves[i].EnemyType # EnemyTypeBoss => ~waves[i].ShootsBullet

\* C13 as stated: enemy bullets are added by bosses only in volleys of
\* exactly 5, one per boss that is in Attack with a phase timer that is a
\* multiple of 8; a boss in Move, Telegraph or Rest adds none, whatever wave
\* descriptor spawned it.
C13_BossFiresOnlyInAttack ==
    [][(BossFrame /\ OnlyBossesShoot) =>
          \A k \in pad : \A r \in RandDraws :
             UpdatePlaying(k, r) =>
                \A f \in {PlayingFrame(k, r)} :
                   \E n \in 0..Cardinality(AttackTicks) :
                      Len(f.incoming) - Len(enemyBullets) = 5 * n]_vars

\* C13 amended: in a Playing frame the enemy bullets added are exactly one
\* volley of 5 for every boss in Attack whose phase timer is a multiple of 8
\* below 80, plus one bullet for every shooter-flagged enemy, a boss in any
\* phase included, whose bullet cooldown runs out.
C13_BossBullets ==
    [][BossFrame =>
          \A k \in pad : \A r \in RandDraws :
             UpdatePlaying(k, r) =>
                \A f \in {PlayingFrame(k, r)} :
                   Len(f.incoming) - Len(enemyBullets) =
                      5 * Cardinality(VolleyTicks) + Cardinality(CooldownTicks)]_vars

\* an Attack volley in flight: the five bullets of one volley, at the same
\* height, with a boss in Attack
C13_VolleyInFlight ==
    /\ gameState = GameStatePlaying
    /\ \E i \in 1..Len(enemies) :
          /\ enemies[i].enemyType = EnemyTypeBoss
          /\ enemies[i].bossState = 2
          /\ enemies[i].bossTimer = 8
    /\ Len(enemyBullets) >= 5
    /\ \A j \in 1..4 :
          enemyBullets[Len(enemyBullets) - j].x # enemyBullets[Len(enemyBullets)].x

\* the boss b0 before a frame and the same boss b1 after its update: the
\* phase changes only to the next one of the cycle 0 -> 1 -> 2 -> 3 -> 0 and
\* then the phase timer is 0; a boss in Telegraph, Attack or Rest keeps its
\* position
BossCycleStep(b0, b1) ==
    /\ b1.bossState # b0.bossState =>
          /\ b1.bossState = (b0.bossState + 1) % 4
          /\ b1.bossTimer = 0
    /\ b0.bossState \in {1, 2, 3} => (b1.x = b0.x /\ b1.y = b0.y)

\* C14: a boss changes phase only along Move -> Telegraph -> Attack -> Rest
\* -> Move, its phase timer is 0 right after every phase change, and its
\* position does not change while it is in Telegraph, Attack or Rest. Every
\* boss alive after a frame is one of the frame's updated bosses (less the
\* hit points shot off it); outside Playing no boss changes phase or place.
C14_PhaseCycle ==
    [][/\ BossFrame =>
             \A k \in pad : \A r \in RandDraws :
                UpdatePlaying(k, r) =>
                   \A f \in {PlayingFrame(k, r)} :
                      /\ \A i \in 1..Len(enemies) :
                            enemies[i].enemyType = EnemyTypeBoss =>
                               BossCycleStep(enemies[i], f.moved[i])
                      /\ \A j \in 1..Len(enemies') :
                            enemies'[j].enemyType = EnemyTypeBoss =>
                               \E i \in 1..Len(f.moved) :
                                  [f.moved[i] EXCEPT !.hp = enemies'[j].hp] = enemies'[j]
       /\ gameState # GameStatePlaying =>
             \A j \in 1..Len(enemies') :
                enemies'[j].enemyType = EnemyTypeBoss =>
                   \E i \in 1..Len(enemies) :
                      /\ enemies[i].enemyType = EnemyTypeBoss
                      /\ enemies'[j].bossState = enemies[i].bossState
                      /\ enemies'[j].bossTimer = enemies[i].bossTimer
                      /\ enemies'[j].x = enemies[i].x
                      /\ enemies'[j].y = enemies[i].y]_vars

\* a boss back in Move after a whole cycle, its phase timer just reset
C14_CycleCompleted ==
    \E i \in 1..Len(enemies) :
        /\ enemies[i].enemyType = EnemyTypeBoss
        /\ enemies[i].bossState = 0
        /\ enemies[i].bossTimer = 0
        /\ enemies[i].time > 350

\* ------------------------------------------------------------------------
\* Properties of the bullet collections

\* C15: after every Playing frame every enemy bullet in the collection lies
\* inside the visible area widened by 8 pixels on every side, the top
\* included.
C15_EnemyBulletsInView ==
    gameState = GameStatePlaying =>
        \A i \in 1..Len(enemyBullets) :
            /\ enemyBullets[i].x > -Px(8)
            /\ enemyBullets[i].x < Px(screenWidth + 8)
            /\ enemyBullets[i].y < Px(screenHeight + 8)
            /\ enemyBullets[i].y > -Px(8)

\* the enemy bullet eb after its move of this frame
EnemyBulletMoved(eb) ==
    [eb EXCEPT !.x = FAdd(eb.x, eb.vx), !.y = FAdd(eb.y, eb.vy)]

\* C16: in a frame that begins in Playing, an enemy bullet that after its
\* move is inside the bounds of the keep test and does not overlap the player
\* is in the collection at the end of the frame, also when another enemy
\* bullet hits the player in that frame.
C16_SurvivorsKept ==
    [][gameState = GameStatePlaying =>
          \A k \in pad : \A r \in RandDraws :
             UpdatePlaying(k, r) =>
                \A f \in {PlayingFrame(k, r)} :
                   \A i \in 1..Len(f.incoming) :
                      \A eb \in {EnemyBulletMoved(f.incoming[i])} :
                         (/\ EnemyBulletInBounds(eb)
                          /\ ~EnemyBulletHitsPlayer(eb, f.playerX, f.playerY)) =>
                             \E j \in 1..Len(enemyBullets') : enemyBullets'[j] = eb]_vars

\* the elements of the sequence s
Range(s) == {s[i] : i \in 1..Len(s)}

\* the player bullet b after its move of this frame
BulletMoved(b) == [b EXCEPT !.x = b.x + b.vx, !.y = b.y + b.vy]

\* C17: a bullet that its move of a Playing frame takes exactly to x = -8 or
\* x = width+8 (or beyond) is absent after the frame, and one that its move
\* leaves between x = -7 and x = width+7, vertically in bounds, is kept; for
\* player bullets that hit no enemy and for enemy bullets that are moved in
\* the frame and do not hit the player.
C17_EdgeColumns ==
    [][gameState = GameStatePlaying =>
          \A k \in pad : \A r \in RandDraws :
             UpdatePlaying(k, r) =>
                \A f \in {PlayingFrame(k, r)} :
                   /\ \A i \in 1..Len(f.shot) :
                         \A b \in {BulletMoved(f.shot[i])} :
                            (\A j \in 1..Len(f.targets) :
                                ~BulletHitsEnemy(f.shot[i], f.targets[j])) =>
                               /\ (b.x <= -Px(8) \/ b.x >= Px(screenWidth + 8)) =>
                                     b \notin Range(bullets')
                               /\ (/\ b.x >= -Px(7)
                                   /\ b.x <= Px(screenWidth + 7)
                                   /\ b.y > -Px(8)) =>
                                     b \in Range(bullets')
                   /\ \A i \in 1..Len(f.incoming) :
                         \A eb \in {EnemyBulletMoved(f.incoming[i])} :
                            (\A h \in 1..i :
                                ~EnemyBulletHitsPlayer(EnemyBulletMoved(f.incoming[h]),
                                                       f.playerX, f.playerY)) =>
                               /\ (eb.x <= -Px(8) \/ eb.x >= Px(screenWidth + 8)) =>
                                     eb \notin Range(enemyBullets')
                               /\ (/\ eb.x >= -Px(7)
                                   /\ eb.x <= Px(screenWidth + 7)
                                   /\ eb.y > -Px(8)
                                   /\ eb.y < Px(screenHeight + 8)) =>
                                     eb \in Range(enemyBullets')]_vars

\* a player bullet kept at x = -7 together with an enemy bullet kept at
\* x = width+7
C17_KeptOnePixelInside ==
    /\ \E i \in 1..Len(bullets) : bullets[i].x = -Px(7)
    /\ \E i \in 1..Len(enemyBullets) : enemyBullets[i].x = Px(screenWidth + 7)

\* index of the first enemy of es that the bullet b overlaps, 0 when none
FirstOverlap(b, es) ==
    IF \E j \in 1..Len(es) : BulletHitsEnemy(b, es[j])
    THEN CHOOSE j \in 1..Len(es) :
            /\ BulletHitsEnemy(b, es[j])
            /\ \A h \in 1..Len(es) : BulletHitsEnemy(b, es[h]) => j <= h
    ELSE 0

\* C18: in a Playing frame every player bullet is tested against the live
\* enemies in list order and takes one hit point off the first one it
\* overlaps only. In a frame that destroys no enemy, every enemy has lost as
\* many hit points as there are bullets whose first overlapping enemy it is,
\* and is otherwise unchanged. In every frame the bullets left are at most
\* the bullets that registered no hit, every hit costs exactly one hit point,
\* and the bullets that overlap no enemy have moved by their velocity and are
\* kept, in order, when in bounds.
C18_OneEnemyPerBullet ==
    [][gameState = GameStatePlaying =>
          \A k \in pad : \A r \in RandDraws :
             UpdatePlaying(k, r) =>
                \A f \in {PlayingFrame(k, r)} :
                   LET first == [i \in 1..Len(f.shot) |-> FirstOverlap(f.shot[i], f.targets)]
                       Misses(b) == FirstOverlap(b, f.targets) = 0
                       passed == SelectSeq(f.shot, Misses)
                       moved == [i \in 1..Len(passed) |-> BulletMoved(passed[i])]
                   IN  /\ Len(bullets') <= Len(f.shot) - f.hits
                       /\ HpTotal(f.targets) - HpTotal(enemies') = f.hits
                       /\ \A b \in Range(SelectSeq(moved, BulletInBounds)) :
                             b \in Range(bullets')
                       /\ Len(enemies') = Len(f.targets) =>
                             /\ bullets' = SelectSeq(moved, BulletInBounds)
                             /\ \A j \in 1..Len(f.targets) :
                                   enemies'[j] =
                                      [f.targets[j] EXCEPT !.hp =
                                          @ - Cardinality({i \in 1..Len(f.shot) : first[i] = j})]]_vars

\* a player bullet that overlaps two enemies at once
C18_TwoEnemiesInPath ==
    \E i \in 1..Len(bullets) : \E j \in 1..Len(enemies) : \E h \in 1..Len(enemies) :
        /\ j < h
        /\ BulletHitsEnemy(bullets[i], enemies[j])
        /\ BulletHitsEnemy(bullets[i], enemies[h])

\* ------------------------------------------------------------------------
\* Properties of the score and of enemy instantiation

\* the number of bosses among the enemies es
Bosses(es) == Cardinality({i \in 1..Len(es) : es[i].enemyType = EnemyTypeBoss})

\* this step is a Playing frame that changes the score or removes an enemy
ScoreOrRemoval ==
    /\ gameState = GameStatePlaying
    /\ \/ score' # score
       \/ Len(enemies') < Len(enemies) + (IF currentSpawn' > currentSpawn THEN 1 ELSE 0)

\* C19: the score changes only in a Playing frame in which player bullets
\* destroy enemies, by 1000 for every boss and 100 for every other enemy
\* destroyed; enemies removed for leaving the screen add nothing; the score
\* never decreases except in the restart frame, which sets it to 0.
C19_ScoreAccounting ==
    [][/\ ScoreOrRemoval =>
             \A k \in pad : \A r \in RandDraws :
                UpdatePlaying(k, r) =>
                   \A f \in {PlayingFrame(k, r)} :
                      LET bosses == Bosses(f.targets) - Bosses(enemies')
                          others == (Len(f.targets) - Len(enemies')) - bosses
                      IN  /\ bosses >= 0 /\ others >= 0
                          /\ score' = score + 1000 * bosses + 100 * others
       /\ gameState # GameStatePlaying =>
             IF RestartFrame THEN score' = 0 ELSE score' = score
       /\ ~RestartFrame => score' >= score]_vars

\* a boss and another enemy have been destroyed in one session
C19_BossAndEscortDestroyed == score = 1100

\* the enemy literal e carries the values the wave descriptor w stands for
MapsWave(w, e) ==
    /\ e.enemyType = w.EnemyType
    /\ w.EnemyType = EnemyTypeStraight => e.hp = 2
    /\ w.EnemyType = EnemyTypeSine => e.hp = 3
    /\ w.EnemyType = EnemyTypeSpecial => e.hp = 4
    /\ w.EnemyType = EnemyTypeBoss => e.hp = 50
    /\ e.speed = (IF w.Speed = 0 THEN Px(2) ELSE w.Speed)
    /\ e.turnDirection = (IF w.TurnDirection = 0 THEN 1 ELSE w.TurnDirection)
    /\ e.phase = 0
    /\ e.bossState = 0
    /\ e.bossTimer = 0
    /\ e.bulletCooldown \in 60..119

\* C20: the enemy instantiated from a wave descriptor has hit points 2, 3, 4
\* or 50 for Straight, Sine, Special or Boss, the wave's speed or 2.0 when
\* that is 0, the wave's turn direction or +1 when that is 0, phase 0, boss
\* phase Move with timer 0 and a cooldown in 60..119, for every value of
\* rand.Intn(60); the frame appends that enemy and moves it, which leaves
\* its hit points, speed and turn direction as instantiated.
C20_SpawnMapping ==
    [][(gameState = GameStatePlaying /\ SpawnDue(waves, currentSpawn, waveTimer)) =>
          LET w == waves[currentSpawn + 1]
          IN  /\ \A d \in 0..59 : MapsWave(w, SpawnEnemy(w, d))
              /\ \A k \in pad : \A r \in RandDraws :
                    UpdatePlaying(k, r) =>
                       \A f \in {PlayingFrame(k, r)} :
                          /\ Len(f.moved) = Len(enemies) + 1
                          /\ \A e \in {f.moved[Len(f.moved)]} :
                                /\ e.hp = SpawnEnemy(w, r).hp
                                /\ e.speed = SpawnEnemy(w, r).speed
                                /\ e.turnDirection = SpawnEnemy(w, r).turnDirection
                                /\ e.time = 1]_vars

\* a boss just instantiated from a wave with speed 0 and turn direction 0
C20_BossSpawnedWithDefaults ==
    \E i \in 1..Len(enemies) :
        /\ enemies[i].enemyType = EnemyTypeBoss
        /\ enemies[i].time = 1
        /\ enemies[i].hp = 50
        /\ enemies[i].speed = Px(2)
        /\ enemies[i].turnDirection = 1
        /\ waves[i].Speed = 0
        /\ waves[i].TurnDirection = 0

\* ------------------------------------------------------------------------
\* Properties of stage edge cases, the explosion delay and enemy firing

\* C21: a session is in Playing with an empty wave list only before the
\* first frame of that stage (wave timer 0, no enemies), and that frame ends
\* in StageClear without having instantiated an enemy.
C21_EmptyStageClears ==
    [][(gameState = GameStatePlaying /\ waves = << >>) =>
          /\ waveTimer = 0
          /\ enemies = << >>
          /\ gameState' = GameStateStageClear
          /\ enemies' = << >>
          /\ currentSpawn' = 0
          /\ waveTimer' = 1]_vars

\* the first frame of a later stage without waves has ended in StageClear
C21_HollowStageCleared ==
    /\ gameState = GameStateStageClear
    /\ currentStage = 1
    /\ waves = << >>
    /\ waveTimer = 1
    /\ stageClearTimer = 0

\* C22: PlayerExplosion is entered with its timer at 0; every frame in it
\* adds 1 to the timer, whatever keys are held; the state stays
\* PlayerExplosion until the frame in which the timer reaches 61, and that
\* frame ends in GameOver.
C22_ExplosionDelay ==
    [][/\ (gameState # GameStatePlayerExplosion
           /\ gameState' = GameStatePlayerExplosion) => playerExplosionTimer' = 0
       /\ gameState = GameStatePlayerExplosion =>
             /\ playerExplosionTimer <= 60
             /\ playerExplosionTimer' = playerExplosionTimer + 1
             /\ gameState' = IF playerExplosionTimer' = 61
                             THEN GameStateGameOver
                             ELSE GameStatePlayerExplosion]_vars

\* GameOver just entered from PlayerExplosion, the timer at 61
C22_ExplosionOver ==
    /\ gameState = GameStateGameOver
    /\ playerExplosionTimer = 61

\* a Line particle of a cooldown shot, as appended and not yet updated
MuzzleFlash(p) == p.ptype = 1 /\ p.lifetime = 5 /\ p.size = Px(80)

\* C23: in a Playing frame an enemy that is not flagged as a shooter keeps
\* its cooldown and emits nothing through the cooldown path; a shooter whose
\* cooldown does not reach zero has it lowered by 1; a shooter whose cooldown
\* reaches zero draws a new one in 60..119, so that its next emission is 60
\* to 119 frames later. The enemy bullets added in the frame are one per
\* shooter (pattern 0..3) whose cooldown reaches zero, next to the boss
\* volleys, and in a frame without a volley the n-th of them starts from the
\* n-th such shooter, offset by (10, 20), and comes with exactly one Line
\* particle of the same velocity at the same place.
C23_FiringCadence ==
    [][(gameState = GameStatePlaying /\ enemies # << >>) =>
          \A k \in pad : \A r \in RandDraws :
             UpdatePlaying(k, r) =>
                \A f \in {PlayingFrame(k, r)} :
                   LET new == SubSeq(f.incoming, Len(enemyBullets) + 1, Len(f.incoming))
                       flashes == SelectSeq(particles', MuzzleFlash)
                       IsShot(i) == i \in CooldownTicks
                       shooters == SelectSeq([i \in 1..Len(enemies) |-> i], IsShot)
                   IN  /\ \A i \in 1..Len(enemies) :
                             IF ~enemies[i].shootsBullet
                             THEN f.moved[i].bulletCooldown = enemies[i].bulletCooldown
                             ELSE IF enemies[i].bulletCooldown - 1 > 0
                             THEN f.moved[i].bulletCooldown = enemies[i].bulletCooldown - 1
                             ELSE f.moved[i].bulletCooldown \in 60..119
                       /\ Len(new) = 5 * Cardinality(VolleyTicks) + Len(shooters)
                       /\ Len(flashes) = Len(shooters)
                       /\ VolleyTicks = {} =>
                             \A n \in 1..Len(shooters) :
                                /\ new[n].x = FAdd(f.moved[shooters[n]].x, Px(10))
                                /\ new[n].y = FAdd(f.moved[shooters[n]].y, Px(20))
                                /\ flashes[n].x = new[n].x
                                /\ flashes[n].y = new[n].y
                                /\ flashes[n].vx = new[n].vx
                                /\ flashes[n].vy = new[n].vy]_vars

\* two bullets of the cooldown path of one shooter in flight, the shooter
\* counting down to its third
C23_SecondShotInFlight ==
    /\ gameState = GameStatePlaying
    /\ Len(enemies) = 1
    /\ enemies[1].shootsBullet
    /\ enemies[1].bossState = 0
    /\ enemies[1].time = 121
    /\ Len(enemyBullets) = 2

\* C24: every enemy bullet that the cooldown path emits in a Playing frame
\* has a defined velocity, also when the shooter of the aimed pattern stands
\* exactly where the player stands.
C24_AimedVelocityDefined ==
    [][(gameState = GameStatePlaying /\ CooldownTicks # {}) =>
          \A k \in pad : \A r \in RandDraws :
             UpdatePlaying(k, r) =>
                \A f \in {PlayingFrame(k, r)} :
                   \A n \in (Len(enemyBullets) + 1)..Len(f.incoming) :
                      /\ f.incoming[n].vx # NaN
                      /\ f.incoming[n].vy # NaN]_vars

\* ------------------------------------------------------------------------
\* Properties of the Special enemy

\* the Special enemy e in phase 1 after a frame of lateral traverse that
\* honours its turn direction
Traversed(e) ==
    LET x1 == e.x + e.speed * e.turnDirection
    IN  [e EXCEPT !.time = e.time + 1,
                  !.x = x1,
                  !.phase = IF \/ e.turnDirection = 1 /\ x1 > Px(screenWidth - 40)
                               \/ e.turnDirection = -1 /\ x1 < Px(20)
                            THEN 2 ELSE 1]

\* this step begins with a Special enemy in phase 1 among the enemies
TraverseFrame ==
    \E i \in 1..Len(enemies) :
        enemies[i].enemyType = EnemyTypeSpecial /\ enemies[i].phase = 1

\* C25: in Playing and in GameOver a Special enemy in phase 1 moves
\* horizontally by speed x turnDirection in the frame and enters phase 2 when
\* that takes it beyond the margin on the side it moves toward (x > width-40
\* for +1, x < 20 for -1).
C25_TraverseHonoursTurn ==
    [][/\ (gameState = GameStatePlaying /\ TraverseFrame) =>
             \A k \in pad : \A r \in RandDraws :
                UpdatePlaying(k, r) =>
                   \A f \in {PlayingFrame(k, r)} :
                      \A i \in 1..Len(enemies) :
                         (enemies[i].enemyType = EnemyTypeSpecial /\ enemies[i].phase = 1) =>
                            /\ f.moved[i].x = Traversed(enemies[i]).x
                            /\ f.moved[i].y = enemies[i].y
                            /\ f.moved[i].phase = Traversed(enemies[i]).phase
       /\ (gameState = GameStateGameOver /\ gameState' = GameStateGameOver) =>
             \A i \in 1..Len(enemies) :
                (enemies[i].enemyType = EnemyTypeSpecial /\ enemies[i].phase = 1) =>
                   \E j \in 1..Len(enemies') : enemies'[j] = Traversed(enemies[i])]_vars

\* one frame of a Special enemy, from e to m, follows the one-way phases:
\* the phase stays or goes up by one, 0 -> 1 exactly when y has passed the
\* mid-line, nothing leaves phase 2, and only y moves in phases 0 and 2, only
\* x in phase 1
PhaseStep(e, m) ==
    /\ m.phase \in {e.phase, e.phase + 1}
    /\ m.phase \in {0, 1, 2}
    /\ e.phase = 0 => /\ m.x = e.x
                      /\ m.y = e.y + e.speed
                      /\ (m.phase = 1) <=> (m.y > Px(screenHeight) \div 2)
    /\ e.phase = 1 => m.y = e.y
    /\ e.phase = 2 => m.x = e.x /\ m.y = e.y + e.speed

\* this step begins with a Special enemy among the enemies
SpecialFrame ==
    \E i \in 1..Len(enemies) : enemies[i].enemyType = EnemyTypeSpecial

\* C26: the phases of a Special enemy are one-way, in Playing and in
\* GameOver: the phase never decreases, it changes only 0 -> 1 (when y
\* exceeds the mid-line) and 1 -> 2, only y changes in phases 0 and 2 and
\* only x in phase 1.
C26_PhasesOneWay ==
    [][/\ (gameState = GameStatePlaying /\ SpecialFrame) =>
             \A k \in pad : \A r \in RandDraws :
                UpdatePlaying(k, r) =>
                   \A f \in {PlayingFrame(k, r)} :
                      \A i \in 1..Len(enemies) :
                         enemies[i].enemyType = EnemyTypeSpecial =>
                            PhaseStep(enemies[i], f.moved[i])
       /\ (gameState = GameStateGameOver /\ gameState' = GameStateGameOver) =>
             \A i \in 1..Len(enemies) :
                enemies[i].enemyType = EnemyTypeSpecial =>
                   \A m \in {MoveEnemyGameOver(enemies[i])} :
                      /\ PhaseStep(enemies[i], m)
                      /\ OnScreen(m) => \E j \in 1..Len(enemies') : enemies'[j] = m]_vars

\* a Special enemy that descends in its last phase while the game is over
C26_DescentAfterTraverse ==
    /\ gameState = GameStateGameOver
    /\ \E i \in 1..Len(enemies) :
          /\ enemies[i].enemyType = EnemyTypeSpecial
          /\ enemies[i].phase = 2
          /\ enemies[i].y > Px(300)

\* ------------------------------------------------------------------------
\* Properties of the particles

\* the particle is not spent
Visible(q) == q.lifetime > 0 /\ q.alpha > 0

\* lifetimes that particles are created with: 5 for the Line particle of an
\* enemy shot, 8 for that of a boss volley, 30..49 for those of an explosion
CreationLifetimes == {5, 8} \cup (30..49)

\* C27: in every game state a frame takes one off the lifetime of each
\* particle and strictly lowers its alpha; the particles left by the frame
\* are the updated ones that are still visible, in order, followed by the
\* particles the frame created (a restart leaves none); no particle in the
\* collection is spent, so a particle created with lifetime L is present
\* for at most L - 1 updates.
C27_ParticleDecay ==
    [][\A old \in {[i \in 1..Len(particles) |-> StepParticle(particles[i])]} :
       \A kept \in {SelectSeq(old, Visible)} :
          /\ \A i \in 1..Len(particles) :
                /\ old[i].lifetime = particles[i].lifetime - 1
                /\ old[i].alpha < particles[i].alpha
          /\ IF gameState = GameStateGameOver /\ gameState' = GameStatePlaying
             THEN particles' = << >>
             ELSE /\ Len(kept) <= Len(particles')
                  /\ SubSeq(particles', 1, Len(kept)) = kept
                  /\ \A j \in (Len(kept) + 1)..Len(particles') :
                        /\ particles'[j].alpha = AlphaOne
                        /\ particles'[j].lifetime \in CreationLifetimes
          /\ \A j \in 1..Len(particles') :
                /\ Visible(particles'[j])
                /\ particles'[j].lifetime <= 49]_vars

\* particles of the player's explosion that have aged down to a third of
\* the longest lifetime while the explosion delay runs
C27_AgedExplosion ==
    /\ gameState = GameStatePlayerExplosion
    /\ \E j \in 1..Len(particles) :
          /\ particles[j].ptype = 0
          /\ particles[j].lifetime <= 20
          /\ particles[j].alpha < AlphaOne \div 10

\* ------------------------------------------------------------------------
\* Properties of the sound manager

\* goroutine t is inside a call and waits for a mutex that is held
Blocked(t) ==
    \/ calls[t].at = "enter" /\ smMutex # Free
    \/ calls[t].at = "lock" /\ effects[calls[t].snd].mutex # Free

\* the step that takes goroutine t on in its call
Proceed(t) ==
    \/ LockManager(t)
    \/ Lookup(t)
    \/ \E ok \in BOOLEAN : LoadSoundBody(t, ok)
    \/ LockSound(t)
    \/ PlayBody(t)
    \/ StopBody(t)
    \/ SetVolumeBody(t)
    \/ SetPanBody(t)

\* the holder h of a mutex is on its way to the unlock, and waits for nothing
Releasing(h) ==
    \/ /\ h.kind = "thread"
       /\ calls[h.id].at \in {"manager", "body"}
       /\ ENABLED Proceed(h.id)
    \/ /\ h.kind = "timer"
       /\ h.id \in 1..Len(timers)
       /\ ENABLED CallbackBody(h.id)

\* no call is stuck: a goroutine inside a call that waits for no held mutex
\* can step, whatever plays and whatever timers are pending, and a held
\* mutex is held by a goroutine or callback that can step to its unlock
NoStall ==
    /\ \A t \in Threads :
          (calls[t].op # "idle" /\ ~Blocked(t)) => ENABLED Proceed(t)
    /\ smMutex # Free => Releasing(smMutex)
    /\ \A s \in 1..Len(effects) :
          effects[s].mutex # Free => Releasing(effects[s].mutex)

\* C28: playing a sound never stalls: in every interleaving of Play, Stop,
\* SetVolume, SetPan, LoadSound and the timer callbacks no call is stuck
\* (no deadlock), and every call of Play returns; Play waits for mutexes
\* only, never for the sound or its timer.
C28_PlayReturns ==
    /\ []NoStall
    /\ \A t \in Threads : (calls[t].op = "Play") ~> (calls[t].op = "idle")

\* Play has returned while its sound is still playing and its stop timer
\* is still pending, with the other goroutine inside a call
C28_ReturnedWhilePlaying ==
    /\ calls[1].op = "idle"
    /\ calls[2].op = "Play" /\ calls[2].at = "lock"
    /\ \E i \in 1..Len(timers) :
          /\ timers[i].st = "fired"
          /\ effects[timers[i].snd].isPlaying[timers[i].channel]
          /\ effects[timers[i].snd].stopTimers[timers[i].channel] = i

\* ------------------------------------------------------------------------
\* Properties of the sound trigger and the boss volleys

\* C29: Play("shoot") is called exactly once in a frame that begins in
\* Playing with the fire key held and the shoot cooldown at 0, which is the
\* frame in which the three player bullets are created, and in no other
\* frame or state.
C29_SoundPerShot ==
    [][/\ gameState = GameStatePlaying =>
             \A k \in pad : \A r \in RandDraws :
                UpdatePlaying(k, r) =>
                   \A f \in {PlayingFrame(k, r)} :
                      \A shot \in {k.space /\ shootCooldown = 0} :
                         /\ shootCalls' = shootCalls + (IF shot THEN 1 ELSE 0)
                         /\ shot => Len(f.shot) = Len(bullets) + 3
                         /\ ~shot => Len(f.shot) = Len(bullets)
       /\ gameState # GameStatePlaying => shootCalls' = shootCalls]_vars

\* the frame after the first shot: one call of Play, three bullets in flight
C29_ShotSounded ==
    /\ gameState = GameStatePlaying
    /\ shootCalls = 1
    /\ Len(bullets) = 3
    /\ shootCooldown = 4

\* the Line particles of boss volleys created in the frame that ends with
\* the particles ps
VolleyFlashes(ps) ==
    Cardinality({j \in 1..Len(ps) :
                    ps[j].ptype = 1 /\ ps[j].size = Px(100) /\ ps[j].lifetime = 8})

\* C30: a boss fires ten volleys of 5 bullets in each complete Attack phase,
\* one every 8 ticks, each with one Line particle: the phase timer runs from
\* 1 to 81 in Attack, so the boss fires 5 bullets and one Line particle in
\* each of the ten frames in which the timer is a multiple of 8 (8, 16, ..,
\* 80), and none in the other frames.
C30_TenVolleys ==
    [][BossFrame =>
          \A k \in pad : \A r \in RandDraws :
             UpdatePlaying(k, r) =>
                \A f \in {PlayingFrame(k, r)} :
                   /\ \A i \in 1..Len(enemies) :
                         (enemies[i].enemyType = EnemyTypeBoss /\ enemies[i].bossState = 2)
                            => enemies[i].bossTimer + 1 \in 1..81
                   /\ Len(f.incoming) - Len(enemyBullets) =
                         5 * Cardinality(AttackTicks) + Cardinality(CooldownTicks)
                   /\ VolleyFlashes(particles') = Cardinality(AttackTicks)]_vars

\* ------------------------------------------------------------------------
\* Properties of the player's fire, the scheduler and the play field

\* C31: player bullets are created only in a frame that begins in Playing
\* with the fire key held and the shoot cooldown at 0, three per fire event;
\* the cooldown is in 0..4 between frames, is 4 after a fire event and falls
\* by at most one per frame, so that two fire events are at least 5 frames
\* apart, and exactly 5 while the key stays held in Playing; it is set to 0
\* otherwise only by a restart, more than 60 frames after the last Playing
\* frame.
C31_FireGated ==
    [][/\ gameState = GameStatePlaying =>
             \A k \in pad : \A r \in RandDraws :
                UpdatePlaying(k, r) =>
                   \A f \in {PlayingFrame(k, r)} :
                      \A fire \in {k.space /\ shootCooldown = 0} :
                         /\ Len(f.shot) = Len(bullets) + (IF fire THEN 3 ELSE 0)
                         /\ SubSeq(f.shot, 1, Len(bullets)) = bullets
                         /\ Len(bullets') <= Len(f.shot)
                         /\ shootCooldown' = IF fire THEN 4
                                             ELSE Max(shootCooldown - 1, 0)
       /\ gameState # GameStatePlaying =>
             /\ bullets' \in {bullets, << >>}
             /\ \/ shootCooldown' = shootCooldown
                \/ /\ gameState = GameStateGameOver
                   /\ gameState' = GameStatePlaying
                   /\ shootCooldown' = 0
                   /\ playerExplosionTimer > 60 \/ stageClearTimer > 60
       /\ shootCooldown \in 0..4
       /\ shootCooldown' \in 0..4]_vars

\* two volleys in flight, the second fired exactly five frames after the
\* first, in the frame just ended
C31_VolleysFiveApart ==
    /\ gameState = GameStatePlaying
    /\ shootCooldown = 4
    /\ Len(bullets) >= 6
    /\ bullets[Len(bullets) - 1].vx = 0
    /\ bullets[Len(bullets) - 4].vx = 0
    /\ bullets[Len(bullets) - 1].y - bullets[Len(bullets) - 4].y = 5 * 12000

\* ------------------------------------------------------------------------
\* Properties of the stop timers

\* this step is the end of a call of Stop
StopReturns ==
    \E t \in Threads :
        calls[t].op = "Stop" /\ calls[t].at = "body" /\ calls'[t].op = "idle"

\* this step is the end of the callback of timer i
CallbackReturns(i) ==
    /\ i \in 1..Len(timers)
    /\ timers[i].st = "locked"
    /\ timers'[i].st = "done"

\* C32: a playback is paused only by its own stop timer or by Stop: when a
\* step takes a channel from playing to idle, or clears the timer that the
\* channel holds, the step is the end of Stop or the end of the callback of
\* the timer that the channel's latest Play armed, never the callback of an
\* earlier playback.
C32_NoStaleStop ==
    [][\A s \in 1..Len(effects) : \A c \in Channels :
          (/\ effects[s].isPlaying[c]
           /\ \/ ~effects'[s].isPlaying[c]
              \/ effects'[s].stopTimers[c] = 0)
             => \/ StopReturns
                \/ CallbackReturns(effects[s].stopTimers[c])]_vars

\* timer i has been armed and its callback has not finished
Pending(i) ==
    /\ i \in 1..Len(timers)
    /\ timers[i].st \in {"armed", "fired", "locked"}

\* every channel marked as playing holds a timer of its own that is armed,
\* or whose callback is waiting for or holding the sound's mutex
PlayingHasTimer ==
    \A s \in 1..Len(effects) : \A c \in Channels :
        effects[s].isPlaying[c] =>
           /\ Pending(effects[s].stopTimers[c])
           /\ timers[effects[s].stopTimers[c]].snd = s
           /\ timers[effects[s].stopTimers[c]].channel = c

\* the channel that Play is to choose on the effect e: the lowest idle one,
\* and the first one when none is idle
ChosenChannel(e) ==
    IF \A c \in Channels : e.isPlaying[c] THEN 1
    ELSE CHOOSE c \in Channels :
            /\ ~e.isPlaying[c]
            /\ \A d \in 1..(c - 1) : e.isPlaying[d]

\* a step that ends a call of Play starts the playback on the chosen
\* channel and leaves the other channels as they are
ChannelChoice ==
    \A t \in Threads :
        (calls[t].op = "Play" /\ calls[t].at = "body" /\ calls'[t].op = "idle") =>
           \A s \in {calls[t].snd} : \A c \in {ChosenChannel(effects[s])} :
              /\ Len(timers') = Len(timers) + 1
              /\ timers'[Len(timers')] = [snd |-> s, channel |-> c, st |-> "armed"]
              /\ effects'[s].isPlaying[c]
              /\ effects'[s].stopTimers[c] = Len(timers')
              /\ \A d \in Channels \ {c} :
                    /\ effects'[s].isPlaying[d] = effects[s].isPlaying[d]
                    /\ effects'[s].stopTimers[d] = effects[s].stopTimers[d]

\* C33: every channel marked as playing has a pending stop timer or a
\* callback on its way, so that every playing channel is in the end marked
\* idle; Play chooses the lowest-indexed idle channel and takes over the
\* first channel only when every channel is playing.
C33_AutoStop ==
    /\ []PlayingHasTimer
    /\ [][ChannelChoice]_vars
    /\ \A c \in Channels : effects[1].isPlaying[c] ~> ~effects[1].isPlaying[c]

\* a take-over: both channels are playing, the first one with the timer of
\* the third Play, and the timer of the first Play was stopped before it fired
C33_TakenOver ==
    /\ Len(timers) = 3
    /\ timers[1].st = "stopped"
    /\ effects[1].isPlaying[1] /\ effects[1].stopTimers[1] = 3
    /\ effects[1].isPlaying[2] /\ effects[1].stopTimers[2] = 2

\* this step stays in the stage: no stage advance and no restart
SameStage ==
    /\ currentStage' = currentStage
    /\ ~(gameState = GameStateGameOver /\ gameState' = GameStatePlaying)

\* C34: the spawn cursor is between 0 and the number of waves and never
\* below the number of live enemies; within a stage it never decreases and
\* rises by at most one per frame, and a new stage begins with cursor 0 and
\* no enemy; an enemy is instantiated only in a Playing frame, at most one
\* per frame, from the wave under the cursor.
C34_SpawnCursor ==
    [][/\ currentSpawn \in 0..Len(waves)
       /\ currentSpawn' \in 0..Len(waves')
       /\ Len(enemies) <= currentSpawn
       /\ Len(enemies') <= currentSpawn'
       /\ IF SameStage
          THEN /\ currentSpawn' \in {currentSpawn, currentSpawn + 1}
               /\ waves' = waves
          ELSE gameState' = GameStatePlaying =>
                  currentSpawn' = 0 /\ enemies' = << >>
       /\ gameState # GameStatePlaying =>
             /\ SameStage => currentSpawn' = currentSpawn
             /\ Len(enemies') <= Len(enemies)
       /\ gameState = GameStatePlaying =>
             \A k \in pad : \A r \in RandDraws :
                UpdatePlaying(k, r) =>
                   \A f \in {PlayingFrame(k, r)} :
                      IF currentSpawn' = currentSpawn + 1
                      THEN /\ Len(f.moved) = Len(enemies) + 1
                           /\ \A w \in {waves[currentSpawn + 1]} :
                              \A e \in {f.moved[Len(f.moved)]} :
                                 /\ e.enemyType = w.EnemyType
                                 /\ e.shootsBullet = w.ShootsBullet
                                 /\ e.time = 1
                      ELSE Len(f.moved) = Len(enemies)]_vars

\* every wave of a two-wave stage instantiated, both enemies alive
C34_AllSpawned ==
    /\ gameState = GameStatePlaying
    /\ Len(waves) = 2
    /\ currentSpawn = 2
    /\ Len(enemies) = 2

\* C35: a frame that begins in Title, PlayerExplosion or StageClear and does
\* not advance the stage leaves the player position, the enemies, the player
\* bullets, the enemy bullets, the score, the high score, the stage index,
\* the wave list, the spawn cursor, the wave timer and the shoot cooldown as
\* they are; besides the particles and the game state it changes only the
\* timer and the flag of its own state.
C35_FrozenOutsidePlaying ==
    [][(/\ gameState \in {GameStateTitle, GameStatePlayerExplosion, GameStateStageClear}
        /\ currentStage' = currentStage)
          => /\ UNCHANGED << playerX, playerY, enemies, bullets, enemyBullets,
                             score, highScore, currentStage, waves, currentSpawn,
                             waveTimer, shootCooldown, shootCalls >>
             /\ gameState # GameStateStageClear =>
                   UNCHANGED << stageClearTimer, stageClearKeyReleased >>
             /\ gameState # GameStatePlayerExplosion =>
                   UNCHANGED playerExplosionTimer
             /\ gameState = GameStateStageClear =>
                   /\ stageClearTimer' = stageClearTimer + 1
                   /\ gameState' = gameState
             /\ gameState = GameStatePlayerExplosion =>
                   playerExplosionTimer' = playerExplosionTimer + 1
             /\ Len(particles') <= Len(particles)]_vars

\* a cleared stage half a second on, with the last volley still where the
\* clearing frame left it and the cooldown still running
C35_FrozenVolley ==
    /\ gameState = GameStateStageClear
    /\ stageClearTimer >= 30
    /\ Len(bullets) >= 3
    /\ shootCooldown > 0

\* ------------------------------------------------------------------------
\* Properties of the way out: enemies leave, the player stays

\* the stage has no boss
BossLess ==
    \A i \in 1..Len(waves) : waves[i].EnemyType # EnemyTypeBoss

\* the enemy e is of the kinds that leave: Straight, Sine or Special, with
\* positive speed and a turn direction of +1 or -1
Leaver(e) ==
    /\ e.enemyType \in {EnemyTypeStraight, EnemyTypeSine, EnemyTypeSpecial}
    /\ e.speed > 0
    /\ e.turnDirection \in {-1, 1}

\* one Playing frame takes the leaver e to m, a step further on its way:
\* down by its speed, or, for a Special enemy in its traverse, toward the
\* margin that ends the traverse by its speed
Onward(e, m) ==
    IF e.enemyType = EnemyTypeSpecial /\ e.phase = 1
    THEN /\ m.y = e.y
         /\ m.x = e.x + e.speed * e.turnDirection
         /\ m.phase = IF \/ e.turnDirection = 1 /\ m.x > Px(screenWidth - 40)
                         \/ e.turnDirection = -1 /\ m.x < Px(20)
                      THEN 2 ELSE 1
    ELSE /\ m.y = e.y + e.speed
         /\ e.enemyType = EnemyTypeSpecial => m.phase >= e.phase

\* every leaver moves onward in a Playing frame, and the enemies that stay
\* after the move are those above y = height + 20
LeaversAdvance ==
    gameState = GameStatePlaying =>
       \A k \in pad : \A r \in RandDraws :
          UpdatePlaying(k, r) =>
             \A f \in {PlayingFrame(k, r)} :
                /\ \A i \in 1..Len(enemies) :
                      Leaver(enemies[i]) => Onward(enemies[i], f.moved[i])
                /\ \A below \in {{i \in 1..Len(f.moved) :
                                     f.moved[i].y >= Px(screenHeight + 20)}} :
                      /\ Len(f.targets) = Len(f.moved) - Cardinality(below)
                      /\ \A j \in 1..Len(f.targets) :
                            f.targets[j].y < Px(screenHeight + 20)

\* C36: every Straight, Sine or Special enemy with positive speed and turn
\* direction +1 or -1 moves onward in every Playing frame and is removed
\* when y >= height + 20, so that a boss-less stage with every wave
\* instantiated does not stay in Playing: it reaches StageClear or
\* PlayerExplosion.
C36_EnemiesLeave ==
    /\ [][LeaversAdvance]_vars
    /\ (gameState = GameStatePlaying /\ BossLess /\ currentSpawn = Len(waves))
          ~> (gameState \in {GameStateStageClear, GameStatePlayerExplosion})

\* a stage of one wave or more cleared without a point scored: every enemy
\* left below
C36_AllLeftBelow ==
    /\ gameState = GameStateStageClear
    /\ Len(waves) > 0
    /\ BossLess
    /\ score = 0
    /\ currentStage = 0

\* the player is inside the play field
InField ==
    /\ Px(20) <= playerX /\ playerX <= Px(screenWidth - 40)
    /\ Px(40) <= playerY /\ playerY <= Px(screenHeight - 20)

\* the distance between a and b
Dist(a, b) == IF a >= b THEN a - b ELSE b - a

\* a step that moves the player is a Playing frame that moves it by at most
\* 8 on each axis, or the restart that puts it where a new game begins
MovesInPlayOrRestart ==
    (playerX' # playerX \/ playerY' # playerY) =>
       \/ /\ gameState = GameStatePlaying
          /\ Dist(playerX', playerX) <= Px(8)
          /\ Dist(playerY', playerY) <= Px(8)
       \/ /\ gameState = GameStateGameOver
          /\ gameState' = GameStatePlaying
          /\ playerX' = Px(screenWidth) \div 2
          /\ playerY' = NewGameFields(stages).playerY

\* C37: the player stays inside the play field, 20 <= x <= width-40 and
\* 40 <= y <= height-20, whatever direction keys are held, opposite keys
\* together included; the position changes only in frames that begin in
\* Playing, by at most 8 on each axis, or on restart.
C37_PlayerInField ==
    /\ []InField
    /\ [][MovesInPlayOrRestart]_vars

\* the player one step off the top left corner on both axes, where only
\* opposite keys held together at the two margins take it
C37_OppositeKeysAtCorner ==
    /\ gameState = GameStatePlaying
    /\ playerX = Px(28)
    /\ playerY = Px(48)

====
